---- MODULE Spec2Model ----
\* Task-directory lifecycle manager of mini-maxit/file-storage:
\* internal/api/services/task_service.go (TaskService) and
\* internal/api/taskutils (TaskUtils), over a model of the file system.
EXTENDS Integers, Sequences, FiniteSets, TLC

\* ---------------------------------------------------------------------
\* Bounds
\* ---------------------------------------------------------------------
MaxN == 2            \* largest N of an uploaded fixture set 1..N
MaxSubmissions == 2  \* submission directories per user before the model stops submitting

TaskIDs == {1}
UserIDs == {1, 2}
Versions == {"a", "b"}   \* distinguishes the bytes of two uploads
Umasks == {18}           \* process umask: 0022

\* ---------------------------------------------------------------------
\* Names, paths and numbers.  A name is a sequence of tokens ("1" ".in"),
\* a path a sequence of names, bytes a sequence of strings.
\* ---------------------------------------------------------------------
DigitChars == <<"0", "1", "2", "3", "4", "5", "6", "7", "8", "9">>
DigitSet == {DigitChars[i] : i \in 1..10}
DigitVal(c) == (CHOOSE i \in 1..10 : DigitChars[i] = c) - 1

\* strconv.Atoi on a string of decimal digits
RECURSIVE Atoi(_)
Atoi(ds) ==
    IF Len(ds) = 0 THEN 0
    ELSE 10 * Atoi(SubSeq(ds, 1, Len(ds) - 1)) + DigitVal(ds[Len(ds)])

\* the %d verb of fmt.Sprintf, for n >= 0
RECURSIVE Itoa(_)
Itoa(n) ==
    IF n < 10 THEN <<DigitChars[n + 1]>>
    ELSE Itoa(n \div 10) \o <<DigitChars[(n % 10) + 1]>>

ExtTokens == {".in", ".out", ".pdf", ".err", ".txt", ".c", ".C", ".cpp", ".py", ".java"}

\* filepath.Ext: the suffix beginning at the final dot, "" if there is none
Ext(name) == IF name[Len(name)] \in ExtTokens THEN name[Len(name)] ELSE ""

\* filepath.Base of a slash-separated path
Base(key) == key[Len(key)]

\* strings.HasPrefix(fileName, "<a>/<b>/")
HasDirPrefix(key, a, b) == Len(key) >= 3 /\ key[1] = <<a>> /\ key[2] = <<b>>

\* regexp `^(\d+)\.<ext>$`
MatchesNumbered(name, ext) ==
    /\ Len(name) >= 2
    /\ name[Len(name)] = ext
    /\ \A i \in 1..(Len(name) - 1) : name[i] \in DigitSet

NumberOf(name) == Atoi(SubSeq(name, 1, Len(name) - 1))

IsPrefix(p, q) == Len(p) <= Len(q) /\ SubSeq(q, 1, Len(p)) = p
Parent(p) == SubSeq(p, 1, Len(p) - 1)
Join(p, name) == Append(p, name)

\* ---------------------------------------------------------------------
\* File system: a function from the existing paths to their nodes.
\* ---------------------------------------------------------------------
ModePerm == 511      \* os.ModePerm, 0777
FilePerm == 420      \* 0644
TempDirPerm == 448   \* 0700, the mode os.MkdirTemp creates with

\* perm &^ umask, on the nine permission bits
RECURSIVE AndNot(_, _)
AndNot(m, k) ==
    IF m = 0 THEN 0
    ELSE (IF m % 2 = 1 /\ k % 2 = 0 THEN 1 ELSE 0) + 2 * AndNot(m \div 2, k \div 2)

DirNode(mode) == [kind |-> "dir", mode |-> mode, data |-> <<>>]
FileNode(mode, data) == [kind |-> "file", mode |-> mode, data |-> data]

TasksRoot == << <<"tasks">> >>    \* ts.taskDirectory
TempRoot == << <<"tmp">> >>       \* os.TempDir()
NoPath == <<>>

Exists(f, p) == p \in DOMAIN f
IsDir(f, p) == Exists(f, p) /\ f[p].kind = "dir"
Subtree(f, p) == {q \in DOMAIN f : IsPrefix(p, q)}
Children(f, p) == {q \in DOMAIN f : Len(q) = Len(p) + 1 /\ IsPrefix(p, q)}
Restrict(f, S) == [q \in S |-> f[q]]
\* the tree below p with paths taken relative to p
TreeAt(f, p) == [r \in {SubSeq(q, Len(p) + 1, Len(q)) : q \in Subtree(f, p)} |-> f[p \o r]]

\* os.RemoveAll succeeding
RemoveAll(f, p) == Restrict(f, DOMAIN f \ Subtree(f, p))

\* os.RemoveAll returning an error (it returns nil for a missing path):
\* either nothing could be removed, or everything below p was removed and
\* p itself could not be.
RemoveAllFailures(f, p) ==
    IF Exists(f, p) THEN {f, Restrict(f, (DOMAIN f \ Subtree(f, p)) \cup {p})} ELSE {}

\* os.MkdirAll: creates every missing directory of p with perm &^ umask
MkdirAllOK(f, p) == \A i \in 1..Len(p) : LET q == SubSeq(p, 1, i) IN Exists(f, q) => IsDir(f, q)
MkdirAll(f, p, perm, um) ==
    LET missing == {SubSeq(p, 1, i) : i \in 1..Len(p)} \ DOMAIN f
    IN  f @@ [q \in missing |-> DirNode(AndNot(perm, um))]

\* os.WriteFile: creates the file with perm &^ umask, or truncates an
\* existing one keeping its mode; needs the parent directory
WriteFileOK(f, p) == IsDir(f, Parent(p)) /\ (Exists(f, p) => f[p].kind = "file")
WriteFile(f, p, data, perm, um) ==
    (p :> (IF Exists(f, p) THEN FileNode(f[p].mode, data) ELSE FileNode(AndNot(perm, um), data))) @@ f

\* a copy that makes the directories and leaves the files out
CopyDirWithoutFiles(f, src, dst, um) ==
    LET dest(q) == dst \o SubSeq(q, Len(src) + 1, Len(q))
        targets == {dest(q) : q \in {x \in Subtree(f, src) : f[x].kind = "dir"}}
    IN  [d \in targets |-> IF Exists(f, d) THEN f[d] ELSE DirNode(AndNot(ModePerm, um))] @@ f

\* TaskUtils.CopyDir with every step succeeding: filepath.Walk visits src
\* and everything below it, directories before their contents.  A directory
\* goes through os.MkdirAll(dest, info.Mode()) (an existing dest is left as
\* it is), a file through CopyFile, which ends in os.Chmod(dst, info.Mode()).
CopyDir(f, src, dst, um) ==
    LET dest(q) == dst \o SubSeq(q, Len(src) + 1, Len(q))
        srcOf(d) == src \o SubSeq(d, Len(dst) + 1, Len(d))
        targets == {dest(q) : q \in Subtree(f, src)}
    IN  [d \in targets |->
            LET n == f[srcOf(d)]
            IN  IF n.kind = "dir"
                THEN (IF Exists(f, d) THEN f[d] ELSE DirNode(AndNot(n.mode, um)))
                ELSE FileNode(n.mode, n.data)] @@ f

\* TaskUtils.CopyDir returning an error: the walk stopped at its first entry
\* (nothing copied) or at the first entry below src (only dst itself made).
CopyDirFailures(f, src, dst, um) ==
    {f} \cup
    (IF IsDir(f, src) /\ ~Exists(f, dst) /\ Children(f, src) # {}
     THEN {(dst :> DirNode(AndNot(f[src].mode, um))) @@ f}
     ELSE {})

\* ---------------------------------------------------------------------
\* Errors: kind names the failing step; a restore failure carries the kind
\* of the restore error and the kind of the error that caused the restore.
\* ---------------------------------------------------------------------
ErrV(kind) == [kind |-> kind, restore |-> "", cause |-> ""]
NilErr == ErrV("nil")
\* a restore-failed error that drops the error of the failed step
RestoreErrWithoutCause(re, e) == [kind |-> "RestoreFailed", restore |-> re, cause |-> ""]

\* fmt.Errorf("failed to restore existing directory: %v \n restoring because: %v", restoreError, err)
RestoreErr(re, e) == [kind |-> "RestoreFailed", restore |-> re, cause |-> e.kind]

\* ---------------------------------------------------------------------
\* Path scheme
\* ---------------------------------------------------------------------
TaskDir(t) == Join(TasksRoot, <<"task">> \o Itoa(t))
SrcDir(t) == Join(TaskDir(t), <<"src">>)
InputDir(t) == Join(SrcDir(t), <<"input">>)
OutputDir(t) == Join(SrcDir(t), <<"output">>)
DescriptionFile(t) == Join(SrcDir(t), <<"description", ".pdf">>)
DescriptionKey == << <<"src">>, <<"description", ".pdf">> >>   \* files["src/description.pdf"]
SubmissionsDir(t) == Join(TaskDir(t), <<"submissions">>)
UserDir(t, u) == Join(SubmissionsDir(t), <<"user">> \o Itoa(u))
SubmissionDir(t, u, n) == Join(UserDir(t, u), <<"submission">> \o Itoa(n))
SubmissionOutputDir(t, u, n) == Join(SubmissionDir(t, u, n), <<"output">>)

BackupDirs(f) == {q \in Children(f, TempRoot) : Base(q)[1] = "task_backup_"}
\* os.MkdirTemp("", "task_backup_*"): a name not yet in use
BackupPath(f) ==
    Join(TempRoot, <<"task_backup_">> \o
        Itoa(CHOOSE k \in 1..(Cardinality(BackupDirs(f)) + 1) :
            /\ ~Exists(f, Join(TempRoot, <<"task_backup_">> \o Itoa(k)))
            /\ \A j \in 1..(k - 1) : Exists(f, Join(TempRoot, <<"task_backup_">> \o Itoa(j)))))

\* ---------------------------------------------------------------------
\* TaskUtils.ValidateFiles: the set of errors the call can return ({} when
\* it returns nil).  The loop ranges over a Go map, so whichever offending
\* entry is met first decides the error.
\* ---------------------------------------------------------------------
IsInputKey(k) == HasDirPrefix(k, "src", "input")
IsOutputKey(k) == ~IsInputKey(k) /\ HasDirPrefix(k, "src", "output")
IsDescriptionKey(k) ==
    /\ ~IsInputKey(k) /\ ~HasDirPrefix(k, "src", "output")
    /\ Base(k)[1] = "description" /\ Len(Base(k)) >= 2

InputNumbers(files) == {NumberOf(Base(k)) : k \in {j \in DOMAIN files : IsInputKey(j) /\ MatchesNumbered(Base(j), ".in")}}
OutputNumbers(files) == {NumberOf(Base(k)) : k \in {j \in DOMAIN files : IsOutputKey(j) /\ MatchesNumbered(Base(j), ".out")}}

ValidateLoopErrors(files) ==
    LET K == DOMAIN files
        dupIn == \E a, b \in K : a # b /\ IsInputKey(a) /\ IsInputKey(b)
                    /\ MatchesNumbered(Base(a), ".in") /\ MatchesNumbered(Base(b), ".in")
                    /\ NumberOf(Base(a)) = NumberOf(Base(b))
        dupOut == \E a, b \in K : a # b /\ IsOutputKey(a) /\ IsOutputKey(b)
                    /\ MatchesNumbered(Base(a), ".out") /\ MatchesNumbered(Base(b), ".out")
                    /\ NumberOf(Base(a)) = NumberOf(Base(b))
    IN  {"InvalidFileName" : k \in {j \in K : \/ IsInputKey(j) /\ ~MatchesNumbered(Base(j), ".in")
                                              \/ IsOutputKey(j) /\ ~MatchesNumbered(Base(j), ".out")}}
        \cup (IF dupIn \/ dupOut THEN {"DuplicateFileNumber"} ELSE {})
        \cup {"InvalidDescriptionExtension" : k \in {j \in K : IsDescriptionKey(j) /\ Ext(Base(j)) # ".pdf"}}
        \cup {"UnrecognizedPath" : k \in {j \in K : ~IsInputKey(j) /\ ~IsOutputKey(j) /\ ~IsDescriptionKey(j)}}

\* a validator without the loop of lines 192-197
ValidateFilesNoSequenceCheck(files) ==
    LET ins == InputNumbers(files)
        outs == OutputNumbers(files)
        hasDescription == \E k \in DOMAIN files : IsDescriptionKey(k)
    IN  IF ValidateLoopErrors(files) # {} THEN ValidateLoopErrors(files)
        ELSE IF Cardinality(ins) # Cardinality(outs) THEN {"CountMismatch"}
        ELSE IF ~hasDescription THEN {"MissingDescription"}
        ELSE {}

ValidateFiles(files) ==
    LET ins == InputNumbers(files)
        outs == OutputNumbers(files)
        hasDescription == \E k \in DOMAIN files : IsDescriptionKey(k)
    IN  IF ValidateLoopErrors(files) # {} THEN ValidateLoopErrors(files)
        ELSE IF Cardinality(ins) # Cardinality(outs) THEN {"CountMismatch"}
        ELSE IF ~hasDescription THEN {"MissingDescription"}
        ELSE IF \E i \in 1..Cardinality(ins) : i \notin ins \/ i \notin outs THEN {"NonSequentialNumbering"}
        ELSE {}

\* ---------------------------------------------------------------------
\* Handlers as step machines.  A configuration is [l |-> locals, fs |-> file
\* system]; <Handler>Next gives the configurations one step of the handler
\* can lead to: the success of the step's system call and its failure.  Calls
\* that change the file system (mkdir, write, copy, remove) can fail at any
\* time; calls that only read (stat, readdir) fail only when the object is
\* missing.
\* ---------------------------------------------------------------------
Goto(s, pc, f) == [l |-> [s.l EXCEPT !.pc = pc, !.trace = Append(@, s.l.pc)], fs |-> f]
Return(s, e, f) == [l |-> [s.l EXCEPT !.pc = "done", !.err = e, !.trace = Append(@, s.l.pc)], fs |-> f]

NoFiles == [k \in {} |-> <<>>]

Locals(op) ==
    [op |-> op, pc |-> "stat", taskID |-> 0, userID |-> 0, number |-> 0,
     files |-> NoFiles, overwrite |-> FALSE, ext |-> "", data |-> <<>>,
     backupDir |-> NoPath, shouldRestore |-> FALSE, saved |-> {},
     expected |-> {}, expectedCount |-> 0, seen |-> {},
     existed |-> FALSE, restoreError |-> "",
     err |-> NilErr, pending |-> NilErr, trace |-> <<>>, io |-> FALSE,
     concurrent |-> FALSE, fileName |-> <<>>, allowed |-> {}, tarFilePath |-> NoPath, response |-> {},
     bucketName |-> <<>>, objectKey |-> NoPath]

\* the outcomes S of a failing system call, when the call runs in an
\* environment in which system calls fail
IOFail(s, S) == IF s.l.io THEN S ELSE {}
\* ... and of a system call that fails whenever what it needs is not there
\* (ok is false): the directory to write into, the directory to copy
StepFails(s, ok, S) == IF s.l.io \/ ~ok THEN S ELSE {}

\* a failed step that returns its error at once
FailNoRestore(s, e, f) == Return(s, e, f)

\* on a failed step: restore if a backup was taken, then return the error
Fail(s, e, f) ==
    IF s.l.shouldRestore
    THEN [l |-> [s.l EXCEPT !.pc = "restore", !.pending = e, !.trace = Append(@, s.l.pc)], fs |-> f]
    ELSE Return(s, e, f)

CreateInit(t, files, ow, io) ==
    [Locals("create") EXCEPT !.taskID = t, !.files = files, !.overwrite = ow, !.io = io]

\* TaskUtils.CreateDirectoryStructure: three MkdirAll calls, the first
\* failing one ends it
CreateDirectoryStructure(s, um) ==
    LET t == s.l.taskID
        f1 == MkdirAll(s.fs, SrcDir(t), ModePerm, um)
        f2 == MkdirAll(f1, InputDir(t), ModePerm, um)
        f3 == MkdirAll(f2, OutputDir(t), ModePerm, um)
    IN  IOFail(s, {Fail(s, ErrV("CreateDirectoryFailed"), g) : g \in {s.fs, f1, f2}})
        \cup (IF MkdirAllOK(s.fs, OutputDir(t)) THEN {Goto(s, "validate", f3)}
              ELSE {Fail(s, ErrV("CreateDirectoryFailed"), s.fs)})

\* The entries a loop over a Go map may visit next: any entry not yet
\* visited.  A call whose system calls cannot fail and that runs alone
\* cannot tell one order from another, and one order is followed.
Picks(s, rest) == IF s.l.io \/ s.l.concurrent THEN rest ELSE {CHOOSE k \in rest : TRUE}

\* a SaveFiles that writes every file into the input directory
SaveFilesAllToInput(s, um) ==
    LET t == s.l.taskID
        rest == DOMAIN s.l.files \ s.l.saved
        next(k, f) == [l |-> [s.l EXCEPT !.saved = @ \cup {k}], fs |-> f]
        target(k) == Join(InputDir(t), Base(k))
    IN  IF rest = {} THEN {Goto(s, "discard", s.fs)}
        ELSE UNION {
            IF IsInputKey(k) \/ IsOutputKey(k)
            THEN {next(k, WriteFile(s.fs, target(k), s.l.files[k], FilePerm, um))}
            ELSE {next(k, s.fs)} : k \in Picks(s, rest)}

\* TaskUtils.SaveFiles, one iteration of its loop over the map
SaveFiles(s, um) ==
    LET t == s.l.taskID
        rest == DOMAIN s.l.files \ s.l.saved
        next(k, f) == [l |-> [s.l EXCEPT !.saved = @ \cup {k}], fs |-> f]
        target(k) == Join(IF IsInputKey(k) THEN InputDir(t) ELSE OutputDir(t), Base(k))
    IN  IF rest = {} THEN {Goto(s, "discard", s.fs)}
        ELSE UNION {
            IF IsInputKey(k) \/ IsOutputKey(k)
            THEN StepFails(s, WriteFileOK(s.fs, target(k)), {Fail(s, ErrV("SaveFailed"), s.fs)})
                 \cup (IF WriteFileOK(s.fs, target(k))
                       THEN {next(k, WriteFile(s.fs, target(k), s.l.files[k], FilePerm, um))}
                       ELSE {})
            ELSE {next(k, s.fs)} : k \in Picks(s, rest)}

\* a restore that removes the task directory and copies nothing back
RestoreDirectoryNoCopy(s, um) ==
    {Return(s, s.l.pending, RemoveAll(s.fs, TaskDir(s.l.taskID)))}

\* TaskUtils.RestoreDirectory, followed by the return of CreateTaskDirectory
RestoreDirectory(s, um) ==
    LET t == s.l.taskID
        f1 == RemoveAll(s.fs, TaskDir(t))
        failed(re, g) == Return([s EXCEPT !.l.restoreError = re], RestoreErr(re, s.l.pending), g)
    IN  IOFail(s, {failed("RestoreRemoveFailed", g) : g \in RemoveAllFailures(s.fs, TaskDir(t))})
        \cup IOFail(s, {failed("RestoreCopyFailed", g) :
                            g \in CopyDirFailures(f1, s.l.backupDir, TaskDir(t), um)})
        \cup {Return(s, s.l.pending, CopyDir(f1, s.l.backupDir, TaskDir(t), um))}

\* a call that restores when the backup could not be taken
BackupDirectoryThenRestore(s, um) ==
    LET t == s.l.taskID
        b == BackupPath(s.fs)
        f1 == MkdirAll(s.fs, b, TempDirPerm, um)
        s1 == [s EXCEPT !.l.shouldRestore = TRUE, !.l.backupDir = b]
    IN  IOFail(s, {Fail(s1, ErrV("BackupFailed"), f1)})
        \cup (IF IsDir(s.fs, TaskDir(t))
              THEN {Goto(s1, "remove", CopyDir(f1, TaskDir(t), b, um))}
              ELSE {})

\* TaskUtils.BackupDirectory and lines 55-59 of CreateTaskDirectory
BackupDirectory(s, um) ==
    LET t == s.l.taskID
        b == BackupPath(s.fs)
        f1 == MkdirAll(s.fs, b, TempDirPerm, um)
        s1 == [s EXCEPT !.l.shouldRestore = TRUE]
    IN  IOFail(s, {Return(s1, ErrV("BackupFailed"), s.fs)})
        \cup StepFails(s, IsDir(s.fs, TaskDir(t)),
                    {Return(s1, ErrV("BackupFailed"), g) : g \in CopyDirFailures(f1, TaskDir(t), b, um)})
        \cup (IF IsDir(s.fs, TaskDir(t))
              THEN {Goto([s1 EXCEPT !.l.backupDir = b], "remove", CopyDir(f1, TaskDir(t), b, um))}
              ELSE {})

\* a stat step that overwrites whatever the flag says
StatTaskDirIgnoringFlag(s) ==
    IF Exists(s.fs, TaskDir(s.l.taskID))
    THEN {Goto([s EXCEPT !.l.existed = TRUE], "backup", s.fs)}
    ELSE {Goto(s, "mkdirs", s.fs)}

\* lines 51-75: os.Stat(taskDir) and the choice between overwriting,
\* refusing and creating
StatTaskDir(s) ==
    IF Exists(s.fs, TaskDir(s.l.taskID))
    THEN (IF s.l.overwrite THEN {Goto([s EXCEPT !.l.existed = TRUE], "backup", s.fs)}
          ELSE {Return([s EXCEPT !.l.existed = TRUE], ErrV("DirectoryAlreadyExists"), s.fs)})
    ELSE {Goto(s, "mkdirs", s.fs)}

\* a discard whose failure rolls the overwrite back
DiscardBackupWithRollback(s, um) ==
    IF s.l.backupDir # NoPath
    THEN {Return(s, NilErr, RemoveAll(s.fs, s.l.backupDir))}
         \cup IOFail(s, {Fail(s, ErrV("DiscardFailed"), g) : g \in RemoveAllFailures(s.fs, s.l.backupDir)})
    ELSE {Return(s, NilErr, s.fs)}

\* lines 125-133: the removal of the backup after every write succeeded,
\* and the return of CreateTaskDirectory
DiscardBackup(s, um) ==
    IF s.l.backupDir # NoPath
    THEN {Return(s, NilErr, RemoveAll(s.fs, s.l.backupDir))}
         \cup IOFail(s, {Return(s, ErrV("DiscardFailed"), g) : g \in RemoveAllFailures(s.fs, s.l.backupDir)})
    ELSE {Return(s, NilErr, s.fs)}

CreateTaskDirectoryNext(s, um) ==
    LET t == s.l.taskID
        pc == s.l.pc
    IN  IF pc = "stat" THEN StatTaskDir(s)
        ELSE IF pc = "backup" THEN BackupDirectory(s, um)
        ELSE IF pc = "remove" THEN
            {Goto(s, "mkdirs", RemoveAll(s.fs, TaskDir(t)))}
            \cup IOFail(s, {Fail(s, ErrV("RemoveFailed"), g) : g \in RemoveAllFailures(s.fs, TaskDir(t))})
        ELSE IF pc = "mkdirs" THEN CreateDirectoryStructure(s, um)
        ELSE IF pc = "validate" THEN
            LET errs == ValidateFiles(s.l.files)
            IN  IF errs = {} THEN {Goto(s, "writedesc", s.fs)}
                ELSE {Fail(s, ErrV(e), s.fs) : e \in errs}
        ELSE IF pc = "writedesc" THEN
            StepFails(s, WriteFileOK(s.fs, DescriptionFile(t)), {Fail(s, ErrV("WriteDescriptionFailed"), s.fs)})
            \cup (IF WriteFileOK(s.fs, DescriptionFile(t))
                  THEN {Goto(s, "save", WriteFile(s.fs, DescriptionFile(t),
                            IF DescriptionKey \in DOMAIN s.l.files THEN s.l.files[DescriptionKey] ELSE <<>>,
                            FilePerm, um))}
                  ELSE {})
        ELSE IF pc = "save" THEN SaveFiles(s, um)
        ELSE IF pc = "discard" THEN DiscardBackup(s, um)
        ELSE IF pc = "restore" THEN RestoreDirectory(s, um)
        ELSE {s}

\* ---------------------------------------------------------------------
\* CreateUserSubmission (task_service.go 140-200)
\* ---------------------------------------------------------------------
AllowedFileTypes == {".c", ".cpp", ".py"}   \* config.AllowedFileTypes, the default list

\* strings.ToLower on an extension
ToLower(e) == IF e = ".C" THEN ".c" ELSE e

\* TaskUtils.IsAllowedFileExtension, allowed being tu.Config.AllowedFileTypes
IsAllowedFileExtension(allowed, e) == \E a \in allowed : e = a

\* a count over the submission directories of every user of the task
GetNextSubmissionNumberAllUsers(f, userDir) ==
    Cardinality({q \in Subtree(f, Parent(userDir)) :
                    Len(q) = Len(userDir) + 1 /\ f[q].kind = "dir" /\ Base(q)[1] = "submission"}) + 1

\* a count that is not advanced to the next free number
GetNextSubmissionNumberNotAdvanced(f, userDir) ==
    Cardinality({q \in Children(f, userDir) : f[q].kind = "dir" /\ Base(q)[1] = "submission"})

\* TaskUtils.GetNextSubmissionNumber: 1 + the number of directories of
\* userDir whose name starts with "submission"
GetNextSubmissionNumber(f, userDir) ==
    Cardinality({q \in Children(f, userDir) : f[q].kind = "dir" /\ Base(q)[1] = "submission"}) + 1

SubmissionInit(t, u, data, fileName, io) ==
    [Locals("submit") EXCEPT !.taskID = t, !.userID = u, !.data = data, !.ext = ToLower(Ext(fileName)), !.io = io,
                             !.fileName = fileName, !.allowed = AllowedFileTypes]

CreateUserSubmissionNext(s, um) ==
    LET t == s.l.taskID
        u == s.l.userID
        pc == s.l.pc
        subDir == SubmissionDir(t, u, s.l.number)
        solution == Join(subDir, <<"solution", s.l.ext>>)
    IN  IF pc = "stat" THEN
            IF ~Exists(s.fs, TaskDir(t)) THEN {Return(s, ErrV("TaskNotFound"), s.fs)}
            ELSE {Goto(s, "mksubs", s.fs)}
        ELSE IF pc = "mksubs" THEN
            IF ~Exists(s.fs, SubmissionsDir(t))
            THEN IOFail(s, {Return(s, ErrV("CreateSubmissionsDirFailed"), s.fs)})
                 \cup (IF MkdirAllOK(s.fs, SubmissionsDir(t))
                       THEN {Goto(s, "mkuser", MkdirAll(s.fs, SubmissionsDir(t), ModePerm, um))} ELSE {})
            ELSE {Goto(s, "mkuser", s.fs)}
        ELSE IF pc = "mkuser" THEN
            IF ~Exists(s.fs, UserDir(t, u))
            THEN IOFail(s, {Return(s, ErrV("CreateUserDirFailed"), s.fs)})
                 \cup (IF MkdirAllOK(s.fs, UserDir(t, u))
                       THEN {Goto(s, "ext", MkdirAll(s.fs, UserDir(t, u), ModePerm, um))} ELSE {})
            ELSE {Goto(s, "ext", s.fs)}
        ELSE IF pc = "ext" THEN
            IF s.l.ext = "" THEN {Return(s, ErrV("MissingExtension"), s.fs)}
            ELSE IF ~IsAllowedFileExtension(s.l.allowed, s.l.ext) THEN {Return(s, ErrV("ExtensionNotAllowed"), s.fs)}
            ELSE {Goto(s, "count", s.fs)}
        ELSE IF pc = "count" THEN
            IF IsDir(s.fs, UserDir(t, u))
            THEN {Goto([s EXCEPT !.l.number = GetNextSubmissionNumber(s.fs, UserDir(t, u))], "mkout", s.fs)}
            ELSE {Return(s, ErrV("NextSubmissionNumberFailed"), s.fs)}
        ELSE IF pc = "mkout" THEN
            IOFail(s, {Return(s, ErrV("CreateSubmissionDirFailed"), s.fs)})
            \cup (IF MkdirAllOK(s.fs, Join(subDir, <<"output">>))
                  THEN {Goto(s, "write", MkdirAll(s.fs, Join(subDir, <<"output">>), ModePerm, um))} ELSE {})
        ELSE IF pc = "write" THEN
            IOFail(s, {Return(s, ErrV("SaveSolutionFailed"), s.fs)})
            \cup (IF WriteFileOK(s.fs, solution)
                  THEN {Return(s, NilErr, WriteFile(s.fs, solution, s.l.data, FilePerm, um))} ELSE {})
        ELSE {s}

\* ---------------------------------------------------------------------
\* StoreUserOutputs (task_service.go 204-299)
\* ---------------------------------------------------------------------
CompileErrorName == <<"compile-error", ".err">>

OutputsInit(t, u, n, outputs, io) ==
    [Locals("outputs") EXCEPT !.pc = "readexp", !.taskID = t, !.userID = u, !.number = n, !.files = outputs, !.io = io]

\* a loop that does not compare the numbers with the expected ones
StoreLoopNoExpectedCheck(s, um) ==
    LET outDir == SubmissionOutputDir(s.l.taskID, s.l.userID, s.l.number)
        rest == DOMAIN s.l.files \ s.l.saved
        step(k) ==
            LET baseName == Base(k)
                num == NumberOf(baseName)
            IN  IF ~MatchesNumbered(baseName, ".out") THEN {Return(s, ErrV("InvalidOutputFormat"), s.fs)}
                ELSE IF num \in s.l.seen THEN {Return(s, ErrV("DuplicateFileNumber"), s.fs)}
                ELSE {[l |-> [s.l EXCEPT !.saved = @ \cup {k}, !.seen = @ \cup {num}],
                       fs |-> WriteFile(s.fs, Join(outDir, baseName), s.l.files[k], FilePerm, um)]}
    IN  IF rest = {} THEN {Return(s, NilErr, s.fs)}
        ELSE UNION {step(k) : k \in rest}

\* a loop that does not look for a number given twice
StoreLoopNoDuplicateCheck(s, um) ==
    LET outDir == SubmissionOutputDir(s.l.taskID, s.l.userID, s.l.number)
        rest == DOMAIN s.l.files \ s.l.saved
        step(k) ==
            LET baseName == Base(k)
                num == NumberOf(baseName)
            IN  IF ~MatchesNumbered(baseName, ".out") THEN {Return(s, ErrV("InvalidOutputFormat"), s.fs)}
                ELSE IF num \notin s.l.expected THEN {Return(s, ErrV("UnexpectedFileNumber"), s.fs)}
                ELSE {[l |-> [s.l EXCEPT !.saved = @ \cup {k}, !.seen = @ \cup {num}],
                       fs |-> WriteFile(s.fs, Join(outDir, baseName), s.l.files[k], FilePerm, um)]}
    IN  IF rest = {} THEN {Return(s, NilErr, s.fs)}
        ELSE UNION {step(k) : k \in rest}

\* one iteration of the loop of lines 269-296 over the map of outputs
StoreLoop(s, um) ==
    LET outDir == SubmissionOutputDir(s.l.taskID, s.l.userID, s.l.number)
        rest == DOMAIN s.l.files \ s.l.saved
        step(k) ==
            LET baseName == Base(k)
                num == NumberOf(baseName)
            IN  IF ~MatchesNumbered(baseName, ".out") THEN {Return(s, ErrV("InvalidOutputFormat"), s.fs)}
                ELSE IF num \in s.l.seen THEN {Return(s, ErrV("DuplicateFileNumber"), s.fs)}
                ELSE IF num \notin s.l.expected THEN {Return(s, ErrV("UnexpectedFileNumber"), s.fs)}
                ELSE IOFail(s, {Return(s, ErrV("SaveOutputFailed"), s.fs)})
                     \cup (IF WriteFileOK(s.fs, Join(outDir, baseName))
                           THEN {[l |-> [s.l EXCEPT !.saved = @ \cup {k}, !.seen = @ \cup {num}],
                                  fs |-> WriteFile(s.fs, Join(outDir, baseName), s.l.files[k], FilePerm, um)]}
                           ELSE {})
    IN  IF rest = {} THEN {Return(s, NilErr, s.fs)}
        ELSE UNION {step(k) : k \in rest}

\* a check of the output directory that accepts a populated one
CheckOutputDirAcceptingEntries(s, um) ==
    LET outDir == SubmissionOutputDir(s.l.taskID, s.l.userID, s.l.number)
    IN  IF Exists(s.fs, outDir) THEN {Goto(s, "compile", s.fs)}
        ELSE {Goto(s, "compile", MkdirAll(s.fs, outDir, ModePerm, um))}

\* lines 222-238: a populated output directory refuses the call, a missing
\* one is created
CheckOutputDir(s, um) ==
    LET outDir == SubmissionOutputDir(s.l.taskID, s.l.userID, s.l.number)
    IN  IF Exists(s.fs, outDir) THEN
            IF Children(s.fs, outDir) # {} THEN {Return(s, ErrV("OutputsAlreadyStored"), s.fs)}
            ELSE {Goto(s, "compile", s.fs)}
        ELSE IOFail(s, {Return(s, ErrV("CreateOutputDirFailed"), s.fs)})
             \cup (IF MkdirAllOK(s.fs, outDir)
                   THEN {Goto(s, "compile", MkdirAll(s.fs, outDir, ModePerm, um))} ELSE {})

\* a compile-error upload that goes through the count check like any other
SaveCompileErrorFileAfterCount(s, um) == {Goto(s, "count", s.fs)}

\* lines 240-247 and TaskUtils.SaveCompileErrorFile: a single entry with
\* the key compile-error.err is written and the call returns
SaveCompileErrorFile(s, um) ==
    LET outDir == SubmissionOutputDir(s.l.taskID, s.l.userID, s.l.number)
    IN  IF Cardinality(DOMAIN s.l.files) = 1 /\ <<CompileErrorName>> \in DOMAIN s.l.files
        THEN IOFail(s, {Return(s, ErrV("SaveCompileErrorFailed"), s.fs)})
             \cup (IF WriteFileOK(s.fs, Join(outDir, CompileErrorName))
                   THEN {Return(s, NilErr, WriteFile(s.fs, Join(outDir, CompileErrorName),
                                    s.l.files[<<CompileErrorName>>], FilePerm, um))}
                   ELSE {})
        ELSE {Goto(s, "count", s.fs)}

\* a count check that only refuses too few entries
CheckOutputCountAtLeast(s, um) ==
    IF Cardinality(DOMAIN s.l.files) < s.l.expectedCount THEN {Return(s, ErrV("CountMismatch"), s.fs)}
    ELSE {Goto(s, "save", s.fs)}

\* lines 260-263: len(outputFiles) against the number of expected outputs
CheckOutputCount(s, um) ==
    IF Cardinality(DOMAIN s.l.files) # s.l.expectedCount THEN {Return(s, ErrV("CountMismatch"), s.fs)}
    ELSE {Goto(s, "save", s.fs)}

StoreUserOutputsNext(s, um) ==
    LET t == s.l.taskID
        pc == s.l.pc
        subDir == SubmissionDir(t, s.l.userID, s.l.number)
        outDir == Join(subDir, <<"output">>)
        expFiles == {q \in Children(s.fs, OutputDir(t)) : MatchesNumbered(Base(q), ".out")}
    IN  IF pc = "readexp" THEN
            IF IsDir(s.fs, OutputDir(t))
            THEN {Goto([s EXCEPT !.l.expected = {NumberOf(Base(q)) : q \in expFiles},
                                 !.l.expectedCount = Cardinality(expFiles)], "statsub", s.fs)}
            ELSE {Return(s, ErrV("ReadExpectedFailed"), s.fs)}
        ELSE IF pc = "statsub" THEN
            IF ~Exists(s.fs, subDir) THEN {Return(s, ErrV("SubmissionNotFound"), s.fs)}
            ELSE {Goto(s, "checkout", s.fs)}
        ELSE IF pc = "checkout" THEN CheckOutputDir(s, um)
        ELSE IF pc = "compile" THEN SaveCompileErrorFile(s, um)
        ELSE IF pc = "count" THEN CheckOutputCount(s, um)
        ELSE IF pc = "save" THEN StoreLoop(s, um)
        ELSE {s}

\* ---------------------------------------------------------------------
\* DeleteTask (task_service.go 500-520)
\* ---------------------------------------------------------------------
DeleteInit(t, io) == [Locals("delete") EXCEPT !.taskID = t, !.io = io]

\* a deletion that removes the files of the task and keeps the rest
DeleteTaskNextKeepingSubmissions(s, um) ==
    LET t == s.l.taskID
    IN  IF s.l.pc = "stat" THEN
            IF ~Exists(s.fs, TaskDir(t)) THEN {Return(s, ErrV("DirectoryNotFound"), s.fs)}
            ELSE {Goto(s, "remove", s.fs)}
        ELSE IF s.l.pc = "remove" THEN
            {Return(s, NilErr, RemoveAll(s.fs, SrcDir(t)))}
            \cup IOFail(s, {Return(s, ErrV("DeleteFailed"), g) : g \in RemoveAllFailures(s.fs, TaskDir(t))})
        ELSE {s}

DeleteTaskNext(s, um) ==
    LET t == s.l.taskID
    IN  IF s.l.pc = "stat" THEN
            IF ~Exists(s.fs, TaskDir(t)) THEN {Return(s, ErrV("DirectoryNotFound"), s.fs)}
            ELSE {Goto(s, "remove", s.fs)}
        ELSE IF s.l.pc = "remove" THEN
            {Return(s, NilErr, RemoveAll(s.fs, TaskDir(t)))}
            \cup IOFail(s, {Return(s, ErrV("DeleteFailed"), g) : g \in RemoveAllFailures(s.fs, TaskDir(t))})
        ELSE {s}

\* ---------------------------------------------------------------------
\* GetUserSubmission: the bytes read are left in data, the name of the
\* file in fileName
\* ---------------------------------------------------------------------
\* strings.HasPrefix(file.Name(), "solution")
HasSolutionPrefix(name) == name[1] = "solution"

\* a search that keeps the first program file it meets
GetUserSubmissionNextFirstMatch(s, um) ==
    LET submissionDir == SubmissionDir(s.l.taskID, s.l.userID, s.l.number)
        programFiles == {q \in Children(s.fs, submissionDir) :
                            s.fs[q].kind = "file" /\ HasSolutionPrefix(Base(q))}
        pc == s.l.pc
    IN  IF pc = "stat" THEN
            IF ~Exists(s.fs, submissionDir) THEN {Return(s, ErrV("SubmissionNotFound"), s.fs)}
            ELSE {Goto(s, "find", s.fs)}
        ELSE IF pc = "find" THEN
            IF ~IsDir(s.fs, submissionDir) THEN {Return(s, ErrV("ReadSubmissionDirFailed"), s.fs)}
            ELSE IF programFiles = {} THEN {Return(s, ErrV("NoSolutionFound"), s.fs)}
            ELSE {Goto([s EXCEPT !.l.fileName = Base(q)], "read", s.fs) : q \in programFiles}
        ELSE IF pc = "read" THEN
            LET programFilePath == Join(submissionDir, s.l.fileName)
            IN  {Return([s EXCEPT !.l.data = s.fs[programFilePath].data], NilErr, s.fs)}
        ELSE {s}

GetUserSubmissionNext(s, um) ==
    LET submissionDir == SubmissionDir(s.l.taskID, s.l.userID, s.l.number)
        programFiles == {q \in Children(s.fs, submissionDir) :
                            s.fs[q].kind = "file" /\ HasSolutionPrefix(Base(q))}
        pc == s.l.pc
    IN  IF pc = "stat" THEN
            IF ~Exists(s.fs, submissionDir) THEN {Return(s, ErrV("SubmissionNotFound"), s.fs)}
            ELSE {Goto(s, "find", s.fs)}
        ELSE IF pc = "find" THEN
            IF ~IsDir(s.fs, submissionDir) THEN {Return(s, ErrV("ReadSubmissionDirFailed"), s.fs)}
            ELSE IF Cardinality(programFiles) > 1 THEN {Return(s, ErrV("MultipleSolutionsFound"), s.fs)}
            ELSE IF programFiles = {} THEN {Return(s, ErrV("NoSolutionFound"), s.fs)}
            ELSE {Goto([s EXCEPT !.l.fileName = Base(q)], "read", s.fs) : q \in programFiles}
        ELSE IF pc = "read" THEN
            LET programFilePath == Join(submissionDir, s.l.fileName)
            IN  {Return([s EXCEPT !.l.data = s.fs[programFilePath].data], NilErr, s.fs)}
        ELSE {s}

\* ---------------------------------------------------------------------
\* GetTaskFiles and GetInputOutput.  An archive is the set of its entries,
\* [name, data]; the path returned is left in tarFilePath.
\* ---------------------------------------------------------------------
CreatePerm == 438    \* os.Create: 0666 before umask
\* task%dFiles.tar.gz and task%d_inputOutput%d.tar.gz in os.TempDir()
TarFilePath(l) ==
    IF l.op = "taskfiles" THEN Join(TempRoot, <<"task">> \o Itoa(l.taskID) \o <<"Files", ".tar.gz">>)
    ELSE Join(TempRoot, <<"task">> \o Itoa(l.taskID) \o <<"_inputOutput">> \o Itoa(l.number) \o <<".tar.gz">>)
ArchiveInit(op, t, k, io) == [Locals(op) EXCEPT !.taskID = t, !.number = k, !.io = io]

\* os.Create(tarFilePath): creates the file or truncates the one there
CreateTar(s, um) ==
    IOFail(s, {Return(s, ErrV("CreateTarFailed"), s.fs)})
    \cup {Goto(s, "add", WriteFile(s.fs, TarFilePath(s.l), {}, CreatePerm, um))}

\* tarWriter.WriteHeader and io.Copy of one entry into the open file
WriteEntry(f, tar, name, data) ==
    IF Exists(f, tar) THEN [f EXCEPT ![tar].data = @ \cup {[name |-> name, data |-> data]}] ELSE f

\* the loop of GetInputOutput over inputFilePath and outputFilePath
AddInputOutput(s, um) ==
    LET t == s.l.taskID
        tar == TarFilePath(s.l)
        inputFilePath == Join(InputDir(t), Itoa(s.l.number) \o <<".in">>)
        outputFilePath == Join(OutputDir(t), Itoa(s.l.number) \o <<".out">>)
        rest == {inputFilePath, outputFilePath} \ s.l.saved
        filePath == IF inputFilePath \in rest THEN inputFilePath ELSE outputFilePath
    IN  IF rest = {} THEN {Return([s EXCEPT !.l.tarFilePath = tar], NilErr, s.fs)}
        ELSE StepFails(s, Exists(s.fs, filePath), {Return(s, ErrV("AddToTarFailed"), s.fs)})
             \cup (IF Exists(s.fs, filePath)
                   THEN {[l |-> [s.l EXCEPT !.saved = @ \cup {filePath}],
                          fs |-> WriteEntry(s.fs, tar, <<Base(filePath)>>, s.fs[filePath].data)]}
                   ELSE {})

\* a GetInputOutput that does not look for the output file
StatInputOutputInputOnly(s) ==
    LET t == s.l.taskID
    IN  IF ~Exists(s.fs, InputDir(t)) THEN {Return(s, ErrV("InputDirDoesNotExist"), s.fs)}
        ELSE IF ~Exists(s.fs, OutputDir(t)) THEN {Return(s, ErrV("OutputDirDoesNotExist"), s.fs)}
        ELSE IF ~Exists(s.fs, Join(InputDir(t), Itoa(s.l.number) \o <<".in">>))
            THEN {Return(s, ErrV("InputFileDoesNotExist"), s.fs)}
        ELSE {Goto(s, "create", s.fs)}

\* the four os.Stat of GetInputOutput
StatInputOutput(s) ==
    LET t == s.l.taskID
    IN  IF ~Exists(s.fs, InputDir(t)) THEN {Return(s, ErrV("InputDirDoesNotExist"), s.fs)}
        ELSE IF ~Exists(s.fs, OutputDir(t)) THEN {Return(s, ErrV("OutputDirDoesNotExist"), s.fs)}
        ELSE IF ~Exists(s.fs, Join(InputDir(t), Itoa(s.l.number) \o <<".in">>))
            THEN {Return(s, ErrV("InputFileDoesNotExist"), s.fs)}
        ELSE IF ~Exists(s.fs, Join(OutputDir(t), Itoa(s.l.number) \o <<".out">>))
            THEN {Return(s, ErrV("OutputFileDoesNotExist"), s.fs)}
        ELSE {Goto(s, "create", s.fs)}

GetInputOutputNext(s, um) ==
    IF s.l.pc = "stat" THEN StatInputOutput(s)
    ELSE IF s.l.pc = "create" THEN CreateTar(s, um)
    ELSE IF s.l.pc = "add" THEN AddInputOutput(s, um)
    ELSE {s}

\* filepath.Walk over srcDir: a directory is visited before what it holds
WalkTaskFiles(s, um) ==
    LET t == s.l.taskID
        tar == TarFilePath(s.l)
        rest == {q \in Subtree(s.fs, SrcDir(t)) \ s.l.saved : q = SrcDir(t) \/ Parent(q) \in s.l.saved}
        header(q) == <<(<<"task">> \o Itoa(t) \o <<"Files">>)>> \o SubSeq(q, Len(TaskDir(t)) + 1, Len(q))
    IN  IF rest = {} THEN {Return([s EXCEPT !.l.tarFilePath = tar], NilErr, s.fs)}
        ELSE IOFail(s, {Return(s, ErrV("AddToTarFailed"), s.fs)})
             \cup {[l |-> [s.l EXCEPT !.saved = @ \cup {q}],
                    fs |-> WriteEntry(s.fs, tar, header(q), s.fs[q].data)] : q \in Picks(s, rest)}

GetTaskFilesNext(s, um) ==
    IF s.l.pc = "stat" THEN
        IF ~Exists(s.fs, SrcDir(s.l.taskID)) THEN {Return(s, ErrV("TaskSrcDirDoesNotExist"), s.fs)}
        ELSE {Goto(s, "create", s.fs)}
    ELSE IF s.l.pc = "create" THEN CreateTar(s, um)
    ELSE IF s.l.pc = "add" THEN WalkTaskFiles(s, um)
    ELSE {s}

\* ---------------------------------------------------------------------
\* Running a handler to its return
\* ---------------------------------------------------------------------
HandlerNext(s, um) ==
    IF s.l.op = "create" THEN CreateTaskDirectoryNext(s, um)
    ELSE IF s.l.op = "submit" THEN CreateUserSubmissionNext(s, um)
    ELSE IF s.l.op = "outputs" THEN StoreUserOutputsNext(s, um)
    ELSE IF s.l.op = "getsub" THEN GetUserSubmissionNext(s, um)
    ELSE IF s.l.op = "taskfiles" THEN GetTaskFilesNext(s, um)
    ELSE IF s.l.op = "inout" THEN GetInputOutputNext(s, um)
    ELSE DeleteTaskNext(s, um)

\* every configuration in which a call starting in one of S can return
RECURSIVE Returns(_, _)
Returns(S, um) ==
    IF \A s \in S : s.l.pc = "done" THEN S
    ELSE Returns({s \in S : s.l.pc = "done"}
                 \cup UNION {HandlerNext(s, um) : s \in {x \in S : x.l.pc # "done"}}, um)

Call(l, f, um) == Returns({[l |-> l, fs |-> f]}, um)

\* ---------------------------------------------------------------------
\* Inputs
\* ---------------------------------------------------------------------
Bytes(v, name) == <<v>> \o name

InKey(n) == << <<"src">>, <<"input">>, Itoa(n) \o <<".in">> >>
OutKey(n) == << <<"src">>, <<"output">>, Itoa(n) \o <<".out">> >>

\* one description, inputs 1.in..n.in and outputs 1.out..n.out
ValidSet(n, v) ==
    LET K == {DescriptionKey} \cup {InKey(i) : i \in 1..n} \cup {OutKey(i) : i \in 1..n}
    IN  [k \in K |-> Bytes(v, Base(k))]

\* a description and 1.in without its output
MismatchedSet(v) == [k \in {DescriptionKey, InKey(1)} |-> Bytes(v, Base(k))]

ValidSets == {ValidSet(n, "a") : n \in 1..MaxN}
\* the uploads of the lifecycle specification: two valid sets that differ in
\* every byte, and an invalid one
FileSets == {ValidSet(1, "a"), ValidSet(1, "b"), MismatchedSet("b")}

SolutionNames == {<<"solution", ".c">>, <<"main", ".C">>, <<"solution", ".java">>, <<"solution">>}

OutKeyOf(n) == << Itoa(n) \o <<".out">> >>
OutputsOf(N, v) == [k \in {OutKeyOf(i) : i \in N} |-> Bytes(v, Base(k))]
CompileErrorOutputs(v) == [k \in {<<CompileErrorName>>} |-> Bytes(v, CompileErrorName)]
\* the outputs 1..n for every n, a second upload of 1.out, a number no task
\* expects alone and next to 1.out, and the compile error
TxtKeyOf(n) == << Itoa(n) \o <<".txt">> >>
NestedOutKeyOf(n) == << <<"sub">>, Itoa(n) \o <<".out">> >>
OutputsWithKeys(K, v) == [k \in K |-> Bytes(v, Base(k))]
\* an entry that is not named {n}.out, alone and next to 1.out, and two
\* entries with the number 1
BadOutputSets ==
    {OutputsWithKeys({TxtKeyOf(1)}, "a"),
     OutputsWithKeys({OutKeyOf(1), TxtKeyOf(2)}, "a"),
     OutputsWithKeys({OutKeyOf(1), NestedOutKeyOf(1)}, "a")}

OutputSets ==
    {OutputsOf(1..n, "a") : n \in 1..MaxN}
    \cup {OutputsOf({1}, "b"), OutputsOf({MaxN + 1}, "a"), OutputsOf({1, MaxN + 1}, "a")}
    \cup BadOutputSets
    \cup {CompileErrorOutputs("a")}

\* ---------------------------------------------------------------------
\* State
\* ---------------------------------------------------------------------
VARIABLES
    fs,       \* the file system
    umask,    \* the umask of the server process
    last,     \* the locals of the most recent call at its return
    series,   \* per task: successful submissions per user in the series of
              \* CreateUserSubmission calls since the task was created
              \* (active = nothing else has run on the task since)
    assigned, \* per task and user: the highest submission number given so far
    procs,    \* per request goroutine: the locals of the call it is running
    buckets   \* FileService.buckets: per bucket name its NumberOfObjects, Size
              \* and Objects (object key -> Size)

vars == <<fs, umask, last, series, assigned, procs, buckets>>

Procs == {1, 2}
Idle == [Locals("none") EXCEPT !.pc = "done"]

NoSeries == [active |-> FALSE, ok |-> [u \in UserIDs |-> 0]]
NewSeries == [active |-> TRUE, ok |-> [u \in UserIDs |-> 0]]

Init ==
    /\ umask \in Umasks
    /\ buckets = [b \in {} |-> 0]       \* no file service runs
    /\ fs = (TempRoot :> DirNode(ModePerm))   \* no task was created yet: ts.taskDirectory is missing
    /\ last = Idle
    /\ procs = [p \in Procs |-> Idle]
    /\ series = [t \in TaskIDs |-> NoSeries]
    /\ assigned = [t \in TaskIDs |-> [u \in UserIDs |-> 0]]

SubmissionDirs(f, t, u) == {q \in Children(f, UserDir(t, u)) : Base(q)[1] = "submission"}

\* the model follows the service until a call leaves a backup directory
\* behind; nothing ever reads such a directory again
NoLeftoverBackup == BackupDirs(fs) = {}

CreateTaskDirectory(t, files, ow, io) ==
    /\ NoLeftoverBackup
    /\ \E r \in Call(CreateInit(t, files, ow, io), fs, umask) :
        /\ fs' = r.fs
        /\ last' = r.l
        /\ series' = [series EXCEPT ![t] =
                        IF r.l.err = NilErr /\ Children(r.fs, TaskDir(t)) = {SrcDir(t)}
                        THEN NewSeries ELSE NoSeries]
    /\ UNCHANGED <<umask, buckets, assigned, procs>>

\* a call of CreateUserSubmission by a service whose configuration holds
\* the list `allowed`
CreateUserSubmissionOf(allowed, t, u, data, fileName, io) ==
    /\ NoLeftoverBackup
    /\ Cardinality(SubmissionDirs(fs, t, u)) < MaxSubmissions
    /\ \E r \in Call([SubmissionInit(t, u, data, fileName, io) EXCEPT !.allowed = allowed], fs, umask) :
        /\ fs' = r.fs
        /\ last' = r.l
        /\ series' = [series EXCEPT ![t] =
                        IF r.l.err = NilErr THEN [@ EXCEPT !.ok[u] = @ + 1]
                        ELSE IF r.l.err.kind \in {"TaskNotFound", "MissingExtension", "ExtensionNotAllowed"} THEN @
                        ELSE NoSeries]
        /\ assigned' = [assigned EXCEPT ![t][u] =
                        IF r.l.err = NilErr /\ r.l.number > @ THEN r.l.number ELSE @]
    /\ UNCHANGED <<umask, buckets, procs>>

\* ... with the default list
CreateUserSubmission(t, u, data, fileName, io) ==
    CreateUserSubmissionOf(AllowedFileTypes, t, u, data, fileName, io)

StoreUserOutputs(t, u, n, outputs, io) ==
    /\ NoLeftoverBackup
    /\ \E r \in Call(OutputsInit(t, u, n, outputs, io), fs, umask) :
        /\ fs' = r.fs
        /\ last' = r.l
    /\ series' = [series EXCEPT ![t] = NoSeries]
    /\ UNCHANGED <<umask, buckets, assigned, procs>>

DeleteTask(t, io) ==
    /\ NoLeftoverBackup
    /\ \E r \in Call(DeleteInit(t, io), fs, umask) :
        /\ fs' = r.fs
        /\ last' = r.l
    /\ series' = [series EXCEPT ![t] = NoSeries]
    /\ UNCHANGED <<umask, buckets, assigned, procs>>

\* Task lifecycle: creation, overwrite and deletion with failing system
\* calls, on a task that receives the submissions of one user
OneUser == {1}
SolutionC == <<"solution", ".c">>
Next ==
    \/ \E t \in TaskIDs, files \in FileSets, ow \in BOOLEAN : CreateTaskDirectory(t, files, ow, TRUE)
    \/ \E t \in TaskIDs, u \in OneUser : CreateUserSubmission(t, u, Bytes("a", SolutionC), SolutionC, FALSE)
    \/ \E t \in TaskIDs : DeleteTask(t, TRUE)

Spec == Init /\ [][Next]_vars

\* Submissions of several users, on tasks created without failing system calls
NextSubmit ==
    \/ \E t \in TaskIDs, ow \in BOOLEAN : CreateTaskDirectory(t, ValidSet(1, "a"), ow, FALSE)
    \/ \E t \in TaskIDs, u \in UserIDs, fileName \in SolutionNames :
            CreateUserSubmission(t, u, Bytes("a", fileName), fileName, FALSE)

SpecSubmit == Init /\ [][NextSubmit]_vars

\* Submissions whose system calls can fail
NextSubmitFaults ==
    \/ \E t \in TaskIDs : CreateTaskDirectory(t, ValidSet(1, "a"), FALSE, FALSE)
    \/ \E t \in TaskIDs, u \in UserIDs, fileName \in SolutionNames :
            CreateUserSubmission(t, u, Bytes("a", fileName), fileName, TRUE)

SpecSubmitFaults == Init /\ [][NextSubmitFaults]_vars

\* Submissions to a service started with ALLOWED_FILE_TYPES unset (the
\* default list), with ".C,.py" and with ".c"
AllowLists == {AllowedFileTypes, {".C", ".py"}, {".c"}}
NextSubmitConfig ==
    \/ \E t \in TaskIDs : CreateTaskDirectory(t, ValidSet(1, "a"), FALSE, FALSE)
    \/ \E allowed \in AllowLists, t \in TaskIDs, u \in UserIDs, fileName \in SolutionNames :
            CreateUserSubmissionOf(allowed, t, u, Bytes("a", fileName), fileName, FALSE)

SpecSubmitConfig == Init /\ [][NextSubmitConfig]_vars

\* Submissions and their outputs, on tasks created and overwritten without
\* failing system calls
OutputSubmissions == {1, 2}   \* the submissions that receive outputs
NextOutputs ==
    \/ \E t \in TaskIDs, files \in ValidSets, ow \in BOOLEAN : CreateTaskDirectory(t, files, ow, FALSE)
    \/ \E t \in TaskIDs, u \in OneUser :
            /\ Cardinality(SubmissionDirs(fs, t, u)) < Cardinality(OutputSubmissions)
            /\ CreateUserSubmission(t, u, Bytes("a", SolutionC), SolutionC, FALSE)
    \/ \E t \in TaskIDs, u \in OneUser, n \in OutputSubmissions, outputs \in OutputSets :
            StoreUserOutputs(t, u, n, outputs, FALSE)

SpecOutputs == Init /\ [][NextOutputs]_vars

\* Concurrent requests.  net/http serves every request on a goroutine of
\* its own and the service holds no lock, so the system calls of two
\* CreateUserSubmission calls interleave freely: a goroutine starts a call,
\* then takes it one step at a time.
ProcVersion(p) == IF p = 1 THEN "a" ELSE "b"

StartSubmission(p, t, u) ==
    /\ procs[p].pc = "done"
    /\ Cardinality(SubmissionDirs(fs, t, u)) < MaxSubmissions
    /\ procs' = [procs EXCEPT ![p] = SubmissionInit(t, u, Bytes(ProcVersion(p), SolutionC), SolutionC, FALSE)]
    /\ UNCHANGED <<fs, umask, buckets, last, series, assigned>>

StepSubmission(p) ==
    /\ procs[p].op = "submit" /\ procs[p].pc # "done"
    /\ \E r \in CreateUserSubmissionNext([l |-> procs[p], fs |-> fs], umask) :
        /\ fs' = r.fs
        /\ procs' = [procs EXCEPT ![p] = r.l]
    /\ UNCHANGED <<umask, buckets, last, series, assigned>>

NextRace ==
    \/ \E t \in TaskIDs : CreateTaskDirectory(t, ValidSet(1, "a"), FALSE, FALSE)
    \/ \E p \in Procs, t \in TaskIDs, u \in UserIDs : StartSubmission(p, t, u)
    \/ \E p \in Procs : StepSubmission(p)

SpecRace == Init /\ [][NextRace]_vars

\* Concurrent overwrites of one task: the task is created with the set
\* OriginalSet, then each goroutine runs one CreateTaskDirectory with
\* overwrite=true, a statement at a time.
OriginalSet == ValidSet(MaxN, "a")
OverwriteSets(p) == {ValidSet(1, ProcVersion(p)), MismatchedSet(ProcVersion(p))}

CreateOriginal(t) ==
    /\ ~Exists(fs, TaskDir(t))
    /\ \A p \in Procs : procs[p] = Idle
    /\ CreateTaskDirectory(t, OriginalSet, FALSE, FALSE)

StartOverwrite(p, t, files) ==
    /\ procs[p] = Idle
    /\ Exists(fs, TaskDir(t))
    /\ procs' = [procs EXCEPT ![p] = [CreateInit(t, files, TRUE, FALSE) EXCEPT !.concurrent = TRUE]]
    /\ UNCHANGED <<fs, umask, buckets, last, series, assigned>>

StepOverwrite(p) ==
    /\ procs[p].op = "create" /\ procs[p].pc # "done"
    /\ \E r \in CreateTaskDirectoryNext([l |-> procs[p], fs |-> fs], umask) :
        /\ fs' = r.fs
        /\ procs' = [procs EXCEPT ![p] = r.l]
    /\ UNCHANGED <<umask, buckets, last, series, assigned>>

NextOverwriteRace ==
    \/ \E t \in TaskIDs : CreateOriginal(t)
    \/ \E p \in Procs, t \in TaskIDs : \E files \in OverwriteSets(p) : StartOverwrite(p, t, files)
    \/ \E p \in Procs : StepOverwrite(p)

SpecOverwriteRace == Init /\ [][NextOverwriteRace]_vars

\* A goroutine that serves one request: it starts the call with the locals
\* l and takes it one statement at a time, whatever the operation
StartCall(p, l) ==
    /\ procs[p] = Idle
    /\ procs' = [procs EXCEPT ![p] = [l EXCEPT !.concurrent = TRUE]]
    /\ UNCHANGED <<fs, umask, buckets, last, series, assigned>>

StepCall(p) ==
    /\ procs[p].pc # "done"
    /\ \E r \in HandlerNext([l |-> procs[p], fs |-> fs], umask) :
        /\ fs' = r.fs
        /\ procs' = [procs EXCEPT ![p] = r.l]
    /\ UNCHANGED <<umask, buckets, last, series, assigned>>

AllIdle == \A p \in Procs : procs[p] = Idle

\* Concurrent StoreUserOutputs calls for the first submission of one user:
\* the task and the submission are made first, then each goroutine stores
\* the outputs 1..MaxN with bytes of its own
NextOutputsRace ==
    \/ \E t \in TaskIDs : AllIdle /\ CreateTaskDirectory(t, OriginalSet, FALSE, FALSE)
    \/ \E t \in TaskIDs, u \in OneUser :
            /\ AllIdle /\ SubmissionDirs(fs, t, u) = {}
            /\ CreateUserSubmission(t, u, Bytes("a", SolutionC), SolutionC, FALSE)
    \/ \E p \in Procs, t \in TaskIDs, u \in OneUser :
            /\ Exists(fs, SubmissionDir(t, u, 1))
            /\ StartCall(p, OutputsInit(t, u, 1, OutputsOf(1..MaxN, ProcVersion(p)), FALSE))
    \/ \E p \in Procs : StepCall(p)

SpecOutputsRace == Init /\ [][NextOutputsRace]_vars

\* Concurrent CreateTaskDirectory calls without overwrite for one task, each
\* goroutine uploading a valid set with bytes of its own
NextCreateRace ==
    \/ \E p \in Procs, t \in TaskIDs, n \in 1..MaxN :
            StartCall(p, CreateInit(t, ValidSet(n, ProcVersion(p)), FALSE, FALSE))
    \/ \E p \in Procs : StepCall(p)

SpecCreateRace == Init /\ [][NextCreateRace]_vars

\* The /getTaskFiles and /getInputOutput handlers after the service call
\* returned a path: os.Open and io.Copy of the archive into the response
\* (kept in response), then the deferred utils.RemoveDirectory of the path
ServeArchive(p) ==
    LET l == procs[p]
    IN  /\ l.op \in {"taskfiles", "inout"} /\ l.pc = "done" /\ l.err = NilErr
        /\ procs' = [procs EXCEPT ![p] =
                IF Exists(fs, l.tarFilePath)
                THEN [l EXCEPT !.pc = "remove", !.response = fs[l.tarFilePath].data]
                ELSE [l EXCEPT !.pc = "remove", !.err = ErrV("OpenArchiveFailed")]]
        /\ UNCHANGED <<fs, umask, buckets, last, series, assigned>>

RemoveArchive(p) ==
    /\ procs[p].pc = "remove"
    /\ fs' = RemoveAll(fs, procs[p].tarFilePath)
    /\ procs' = [procs EXCEPT ![p].pc = "closed"]
    /\ UNCHANGED <<umask, buckets, last, series, assigned>>

\* Concurrent archive requests for one task: the task is made first, then
\* each goroutine serves one /getTaskFiles or /getInputOutput request
NextArchiveRace ==
    \/ \E t \in TaskIDs : AllIdle /\ CreateTaskDirectory(t, ValidSet(1, "a"), FALSE, FALSE)
    \/ \E p \in Procs, t \in TaskIDs :
            /\ Exists(fs, TaskDir(t))
            /\ \/ StartCall(p, ArchiveInit("taskfiles", t, 0, FALSE))
               \/ StartCall(p, ArchiveInit("inout", t, 1, FALSE))
    \/ \E p \in Procs : procs[p].pc \notin {"remove", "closed"} /\ StepCall(p)
    \/ \E p \in Procs : ServeArchive(p)
    \/ \E p \in Procs : RemoveArchive(p)

SpecArchiveRace == Init /\ [][NextArchiveRace]_vars

\* the task directory of t holds the complete tree of the upload `files`
\* and nothing else
CompleteTree(f, t, files) ==
    LET ins == {k \in DOMAIN files : IsInputKey(k)}
        outs == {k \in DOMAIN files : IsOutputKey(k)}
    IN  /\ Children(f, TaskDir(t)) = {SrcDir(t)}
        /\ Children(f, SrcDir(t)) = {InputDir(t), OutputDir(t), DescriptionFile(t)}
        /\ f[DescriptionFile(t)].data = files[DescriptionKey]
        /\ Children(f, InputDir(t)) = {Join(InputDir(t), Base(k)) : k \in ins}
        /\ Children(f, OutputDir(t)) = {Join(OutputDir(t), Base(k)) : k \in outs}
        /\ \A k \in ins : f[Join(InputDir(t), Base(k))].data = files[k]
        /\ \A k \in outs : f[Join(OutputDir(t), Base(k))].data = files[k]

\* One overwrite of the original task, statement by statement, with system
\* calls that can fail
StartFaultyOverwrite(p, t, files) ==
    /\ \A q \in Procs : procs[q] = Idle
    /\ NoLeftoverBackup
    /\ CompleteTree(fs, t, OriginalSet)
    /\ procs' = [procs EXCEPT ![p] = CreateInit(t, files, TRUE, TRUE)]
    /\ UNCHANGED <<fs, umask, buckets, last, series, assigned>>

NextOverwriteSteps ==
    \/ \E t \in TaskIDs : CreateOriginal(t)
    \/ \E p \in Procs, t \in TaskIDs : \E files \in OverwriteSets(p) : StartFaultyOverwrite(p, t, files)
    \/ \E p \in Procs : StepOverwrite(p)

SpecOverwriteSteps == Init /\ [][NextOverwriteSteps]_vars

\* Archives of tasks that were created whole, in part or not at all
GetTaskFiles(t, io) ==
    /\ \E r \in Call(ArchiveInit("taskfiles", t, 0, io), fs, umask) :
        /\ fs' = r.fs
        /\ last' = r.l
    /\ UNCHANGED <<umask, buckets, series, assigned, procs>>

GetInputOutput(t, inputOutputID, io) ==
    /\ \E r \in Call(ArchiveInit("inout", t, inputOutputID, io), fs, umask) :
        /\ fs' = r.fs
        /\ last' = r.l
    /\ UNCHANGED <<umask, buckets, series, assigned, procs>>

NextArchive ==
    \/ \E t \in TaskIDs : CreateTaskDirectory(t, ValidSet(1, "a"), FALSE, TRUE)
    \/ \E t \in TaskIDs : GetTaskFiles(t, TRUE)
    \/ \E t \in TaskIDs, k \in {1, 2} : GetInputOutput(t, k, TRUE)

SpecArchive == Init /\ [][NextArchive]_vars

\* GetUserSubmission on its own: the submission directory of user 1 holds
\* any of the entries the cases of TestGetUserSubmission put there, a file
\* that is no solution and a directory named like one
Solution1 == <<"solution", "1", ".c">>         \* "solution1.c"
Solution2 == <<"solution", "2", ".c">>         \* "solution2.c"
SubmissionFileNames == {Solution1, Solution2, <<"main", ".c">>}
SubmissionDirNames == {<<"output">>, <<"solution", "s">>}
SubmissionDirWith(names) ==
    LET dir == SubmissionDir(1, 1, 1)
        made == MkdirAll((TempRoot :> DirNode(ModePerm)), dir, ModePerm, 0)
    IN  [q \in {Join(dir, n) : n \in names} |->
            IF Base(q) \in SubmissionFileNames THEN FileNode(FilePerm, Bytes("a", Base(q)))
            ELSE DirNode(ModePerm)] @@ made

InitGetSubmission ==
    /\ umask \in Umasks
    /\ buckets = [b \in {} |-> 0]       \* no file service runs
    /\ fs \in {SubmissionDirWith(names) : names \in SUBSET (SubmissionFileNames \cup SubmissionDirNames)}
    /\ last = Idle
    /\ procs = [p \in Procs |-> Idle]
    /\ series = [t \in TaskIDs |-> NoSeries]
    /\ assigned = [t \in TaskIDs |-> [u \in UserIDs |-> 0]]

GetUserSubmission(t, u, n) ==
    /\ \E r \in Call([Locals("getsub") EXCEPT !.taskID = t, !.userID = u, !.number = n], fs, umask) :
        /\ fs' = r.fs
        /\ last' = r.l
    /\ UNCHANGED <<umask, buckets, series, assigned, procs>>

NextGetSubmission == \E t \in TaskIDs, u \in UserIDs, n \in 1..MaxSubmissions : GetUserSubmission(t, u, n)
SpecGetSubmission == InitGetSubmission /\ [][NextGetSubmission]_vars

\* ValidateFiles on its own: the file sets are the subsets of the keys the
\* cases of TestValidateFiles are made of, with the description under src/
\* as the server gives it
ValidateKeys ==
    {DescriptionKey,
     << <<"description", ".pdf">> >>,                            \* "description.pdf"
     << <<"description", ".txt">> >>,                            \* "description.txt"
     << <<"randomfile", ".txt">> >>,                             \* "randomfile.txt"
     << <<"src">>, <<"input">>, <<"sub">>, <<"1", ".in">> >>}    \* "src/input/sub/1.in"
        \cup {InKey(n) : n \in 1..MaxN} \cup {OutKey(n) : n \in 1..MaxN}
ValidateInputs == {OutputsWithKeys(K, "a") : K \in SUBSET ValidateKeys}

InitValidate ==
    /\ umask \in Umasks
    /\ buckets = [b \in {} |-> 0]       \* no file service runs
    /\ fs = (TempRoot :> DirNode(ModePerm))
    /\ \E files \in ValidateInputs : last = [Idle EXCEPT !.files = files]
    /\ procs = [p \in Procs |-> Idle]
    /\ series = [t \in TaskIDs |-> NoSeries]
    /\ assigned = [t \in TaskIDs |-> [u \in UserIDs |-> 0]]

\* err := tu.ValidateFiles(test.files)
Validate ==
    /\ last.op = "none"
    /\ \E e \in (IF ValidateFiles(last.files) = {} THEN {NilErr}
                 ELSE {ErrV(k) : k \in ValidateFiles(last.files)}) :
            last' = [last EXCEPT !.op = "validate", !.err = e]
    /\ UNCHANGED <<fs, umask, buckets, series, assigned, procs>>

NextValidate == Validate
SpecValidate == InitValidate /\ [][NextValidate]_vars

\* CreateTaskDirectory on file sets the validator accepts, without failing
\* system calls: the description under the key the server uses, under the
\* key of TestValidateFiles ("description.pdf"), and under both
RootDescriptionKey == << <<"description", ".pdf">> >>
UploadSets ==
    {OutputsWithKeys(D \cup {InKey(i) : i \in 1..n} \cup {OutKey(i) : i \in 1..n}, v) :
        D \in {{DescriptionKey}, {RootDescriptionKey}, {DescriptionKey, RootDescriptionKey}},
        n \in 0..1, v \in {"a", "b"}}
NextUpload ==
    \E t \in TaskIDs, files \in UploadSets, ow \in BOOLEAN : CreateTaskDirectory(t, files, ow, FALSE)

SpecUpload == Init /\ [][NextUpload]_vars

\* ---------------------------------------------------------------------
\* FileService (file_service.go, the version with RemoveObject).  A bucket
\* is a directory below RootDirectory/buckets and an entry of fs.buckets;
\* an object is a file below the bucket directory and an entry of the
\* bucket's Objects.  A call gives the set of its outcomes
\* [err, fs, buckets]; with io, a system call of it may fail.
\* ---------------------------------------------------------------------
BucketPerm == 493   \* 0755

\* filepath.Join(fs.RootDirectory, "buckets", bucketName, objectKey)
ObjectPath(bucketName, objectKey) == << <<"buckets">>, bucketName >> \o objectKey

CreateBucket(f, B, um, bucketName) ==
    LET bucketPath == ObjectPath(bucketName, <<>>)
    IN  IF bucketName \in DOMAIN B THEN {[err |-> "BucketAlreadyExists", fs |-> f, buckets |-> B]}
        ELSE IF ~MkdirAllOK(f, bucketPath) THEN {[err |-> "CreateBucketDirFailed", fs |-> f, buckets |-> B]}
        ELSE {[err |-> "nil", fs |-> MkdirAll(f, bucketPath, BucketPerm, um),
               buckets |-> (bucketName :> [NumberOfObjects |-> 0, Size |-> 0, Objects |-> NoFiles]) @@ B]}

DeleteBucket(f, B, bucketName, io) ==
    LET bucketPath == ObjectPath(bucketName, <<>>)
    IN  {[err |-> "nil", fs |-> RemoveAll(f, bucketPath),
          buckets |-> Restrict(B, DOMAIN B \ {bucketName})]}
        \cup (IF io THEN {[err |-> "DeleteBucketDirFailed", fs |-> g, buckets |-> B] :
                            g \in RemoveAllFailures(f, bucketPath)}
              ELSE {})

\* an update of the metadata that does not take the old size of a replaced
\* object off the bucket's Size
PutObjectKeepingOldSize(bucket, objectKey, size) ==
    LET Objects == (objectKey :> size) @@ bucket.Objects
    IN  [NumberOfObjects |-> Cardinality(DOMAIN Objects), Size |-> bucket.Size + size, Objects |-> Objects]

\* lines 211-225 of AddOrUpdateObject: the metadata of the bucket after the
\* object was written with `size` bytes
PutObject(bucket, objectKey, size) ==
    LET existing == IF objectKey \in DOMAIN bucket.Objects THEN bucket.Objects[objectKey] ELSE 0
        Objects == (objectKey :> size) @@ bucket.Objects
    IN  [NumberOfObjects |-> Cardinality(DOMAIN Objects),
         Size |-> (bucket.Size - existing) + size,
         Objects |-> Objects]

\* io.Copy may fail after any part of the bytes was written
AddOrUpdateObject(f, B, um, bucketName, objectKey, data, io) ==
    LET objectPath == ObjectPath(bucketName, objectKey)
        g == MkdirAll(f, Parent(objectPath), BucketPerm, um)
        out(e, h, C) == [err |-> e, fs |-> h, buckets |-> C]
    IN  IF bucketName \notin DOMAIN B THEN {out("BucketNotFound", f, B)}
        ELSE IF ~MkdirAllOK(f, Parent(objectPath)) THEN {out("CreateObjectDirFailed", f, B)}
        ELSE IF ~WriteFileOK(g, objectPath) THEN {out("CreateObjectFileFailed", g, B)}
        ELSE {LET h == WriteFile(g, objectPath, data, CreatePerm, um)
              IN  out("nil", h, [B EXCEPT ![bucketName] = PutObject(@, objectKey, Len(h[objectPath].data))])}
             \cup (IF io
                   THEN {out("CreateObjectFileFailed", g, B)}
                        \cup {out("CopyObjectFailed",
                                  WriteFile(g, objectPath, SubSeq(data, 1, n), CreatePerm, um), B) :
                                n \in 0..(Len(data) - 1)}
                        \cup {out("StatObjectFailed", WriteFile(g, objectPath, data, CreatePerm, um), B)}
                   ELSE {})

RemoveObject(f, B, bucketName, objectKey, io) ==
    LET objectPath == ObjectPath(bucketName, objectKey)
        out(e, h, C) == [err |-> e, fs |-> h, buckets |-> C]
    IN  IF bucketName \notin DOMAIN B THEN {out("BucketNotFound", f, B)}
        ELSE IF objectKey \notin DOMAIN B[bucketName].Objects THEN {out("ObjectNotFound", f, B)}
        ELSE LET bucket == B[bucketName]
                 Objects == Restrict(bucket.Objects, DOMAIN bucket.Objects \ {objectKey})
             IN  {out("nil", Restrict(f, DOMAIN f \ {objectPath}),
                      [B EXCEPT ![bucketName] =
                            [NumberOfObjects |-> Cardinality(DOMAIN Objects),
                             Size |-> bucket.Size - bucket.Objects[objectKey],
                             Objects |-> Objects]])}
                 \cup (IF io THEN {out("RemoveObjectFailed", f, B)} ELSE {})

\* one call of the file service, from start to return
FileServiceCall(op, bucketName, objectKey, S) ==
    /\ \E r \in S :
        /\ fs' = r.fs
        /\ buckets' = r.buckets
        /\ last' = [Locals(op) EXCEPT !.pc = "done", !.err = ErrV(r.err),
                        !.bucketName = bucketName, !.objectKey = objectKey,
                        !.existed = /\ bucketName \in DOMAIN buckets
                                    /\ objectKey \in DOMAIN buckets[bucketName].Objects]
    /\ UNCHANGED <<umask, series, assigned, procs>>

\* the buckets, object keys and uploads of the runs: a key at the top of
\* the bucket, one below a directory, and the directory's own name
BucketNames == {<<"b">>}
ObjectKeys == {<< <<"k">> >>, << <<"d">>, <<"k">> >>, << <<"d">> >>}
Uploads == {<<>>, <<"x">>, <<"x", "y">>}

\* Buckets and objects, one call after the other, with system calls that
\* can fail
NextBuckets ==
    \/ \E b \in BucketNames : FileServiceCall("CreateBucket", b, NoPath, CreateBucket(fs, buckets, umask, b))
    \/ \E b \in BucketNames, k \in ObjectKeys, data \in Uploads :
            FileServiceCall("AddOrUpdateObject", b, k, AddOrUpdateObject(fs, buckets, umask, b, k, data, TRUE))
    \/ \E b \in BucketNames, k \in ObjectKeys :
            FileServiceCall("RemoveObject", b, k, RemoveObject(fs, buckets, b, k, TRUE))

SpecBuckets == Init /\ [][NextBuckets]_vars

\* deleteBucketHandler, a step at a time: the lookup and the emptiness
\* check (404 and 400), then FileService.DeleteBucket (500 or 200)
DeleteBucketHandler(p) ==
    LET l == procs[p]
        b == l.bucketName
        return(e) == [procs EXCEPT ![p] = [l EXCEPT !.pc = "done", !.err = ErrV(e)]]
    IN  /\ l.op = "deleteBucket"
        /\ l.pc \in {"check", "remove"}
        /\ IF l.pc = "check"
           THEN /\ procs' = (IF b \notin DOMAIN buckets THEN return("BucketNotFound")
                             ELSE IF buckets[b].NumberOfObjects > 0 THEN return("BucketNotEmpty")
                             ELSE [procs EXCEPT ![p] = [l EXCEPT !.pc = "remove"]])
                /\ UNCHANGED <<fs, buckets>>
           ELSE \E r \in DeleteBucket(fs, buckets, b, l.io) :
                    /\ fs' = r.fs
                    /\ buckets' = r.buckets
                    /\ procs' = return(r.err)
        /\ UNCHANGED <<umask, last, series, assigned>>

\* Delete requests for a bucket, each in its goroutine, while buckets are
\* created and objects uploaded
NextBucketRace ==
    \/ \E b \in BucketNames : FileServiceCall("CreateBucket", b, NoPath, CreateBucket(fs, buckets, umask, b))
    \/ \E b \in BucketNames, k \in ObjectKeys, data \in Uploads :
            FileServiceCall("AddOrUpdateObject", b, k, AddOrUpdateObject(fs, buckets, umask, b, k, data, FALSE))
    \/ \E p \in Procs, b \in BucketNames, io \in BOOLEAN :
            StartCall(p, [Locals("deleteBucket") EXCEPT !.pc = "check", !.bucketName = b, !.io = io])
    \/ \E p \in Procs : DeleteBucketHandler(p)

SpecBucketRace == Init /\ [][NextBucketRace]_vars

\* ---------------------------------------------------------------------
\* Properties of CreateTaskDirectory
\* ---------------------------------------------------------------------
Range(q) == {q[i] : i \in DOMAIN q}
\* the call whose locals are l went through step pc
Ran(l, pc) == pc \in Range(l.trace)
\* ... and went through step a before step b
Before(l, a, b) == \E i, j \in DOMAIN l.trace : i < j /\ l.trace[i] = a /\ l.trace[j] = b

\* the last call was an overwrite of an existing task
Overwrote == last.op = "create" /\ last.existed /\ last.overwrite
\* ... that took its backup
BackedUp == Overwrote /\ last.backupDir # NoPath

\* C1: when a step of an overwrite fails after the backup was taken and the
\* restore succeeds, the task directory at the return of the call has the
\* entries, the bytes and the modes it had before the call.
C1_RestoreYieldsPreOverwriteTree ==
    [][(last'.op = "create" /\ Ran(last', "restore") /\ last'.restoreError = "")
        => TreeAt(fs', TaskDir(last'.taskID)) = TreeAt(fs, TaskDir(last'.taskID))]_vars

\* C2 as stated: an overwrite of an existing task with an invalid file set
\* returns the validation error and never takes a snapshot, deletes the
\* task directory or runs a restore.
C2_ValidationBeforeDestructiveSteps ==
    (Overwrote /\ ValidateFiles(last.files) # {})
        => /\ last.err.kind \in ValidateFiles(last.files)
           /\ ~Ran(last, "backup") /\ ~Ran(last, "remove") /\ ~Ran(last, "restore")

\* C2 amended: validation runs after the snapshot, the deletion and the
\* creation of the directory skeleton and before every file write; when it
\* rejects the file set of an overwrite, a restore runs before the call
\* returns, and the call returns the validation error or, if the restore
\* fails, the restore-failed error that carries it.
C2_ValidationAfterTeardown ==
    (BackedUp /\ Ran(last, "validate") /\ ValidateFiles(last.files) # {})
        => /\ Before(last, "backup", "remove") /\ Before(last, "remove", "mkdirs")
           /\ Before(last, "mkdirs", "validate") /\ Before(last, "validate", "restore")
           /\ ~Ran(last, "writedesc") /\ ~Ran(last, "save")
           /\ \/ last.err.kind \in ValidateFiles(last.files)
              \/ last.err.kind = "RestoreFailed" /\ last.err.cause \in ValidateFiles(last.files)

\* an overwrite with an invalid file set that was rolled back and returned
\* the validation error
C2_Witness ==
    /\ BackedUp /\ ValidateFiles(last.files) # {}
    /\ Before(last, "validate", "restore")
    /\ last.err.kind = "CountMismatch"

\* The ends of an overwrite that took a backup
Committed ==
    /\ last.err = NilErr
    /\ CompleteTree(fs, last.taskID, last.files)
    /\ ~Exists(fs, last.backupDir)
RolledBack ==
    /\ last.err # NilErr /\ last.err.kind # "RestoreFailed"
    /\ Ran(last, "restore") /\ last.restoreError = ""
    /\ TreeAt(fs, TaskDir(last.taskID)) = TreeAt(fs, last.backupDir)
Corrupt == last.err.kind = "RestoreFailed" /\ last.restoreError # ""
\* every write succeeded and the removal of the backup failed
DiscardFailed ==
    /\ last.err.kind = "DiscardFailed"
    /\ CompleteTree(fs, last.taskID, last.files)
    /\ ~Ran(last, "restore")

ExactlyOne(bs) == Cardinality({i \in DOMAIN bs : bs[i]}) = 1

\* C3 as stated: an overwrite that took a backup ends Committed, RolledBack
\* or Corrupt, and no failure after the backup returns without a restore
\* attempt.
C3_ThreeEnds ==
    BackedUp => /\ ExactlyOne(<<Committed, RolledBack, Corrupt>>)
                /\ last.err # NilErr => Ran(last, "restore")

\* C3 amended: an overwrite that took a backup ends in exactly one of four
\* states: Committed, RolledBack, Corrupt, or DiscardFailed (the new tree
\* is complete and in place, the removal of the backup failed, the failure
\* is returned and no restore runs); every other failure after the backup
\* runs a restore before it returns.
C3_FourEnds ==
    BackedUp => /\ ExactlyOne(<<Committed, RolledBack, Corrupt, DiscardFailed>>)
                /\ (last.err # NilErr /\ last.err.kind # "DiscardFailed") => Ran(last, "restore")

\* an overwrite whose writes all succeeded and whose backup could not be
\* removed
C3_Witness == BackedUp /\ DiscardFailed /\ Exists(fs, last.backupDir)

\* C4: when the restore that follows a failed step of an overwrite fails,
\* the call returns the restore-failed error, which carries the failure of
\* the restore and the error of the failed step; no other return gives
\* this error.
C4_RestoreFailureCarriesCause ==
    last.op = "create" =>
        /\ last.restoreError # "" =>
                /\ last.err.kind = "RestoreFailed"
                /\ last.err.restore = last.restoreError
                /\ last.pending # NilErr
                /\ last.err.cause = last.pending.kind
        /\ last.err.kind = "RestoreFailed" => (Ran(last, "restore") /\ last.restoreError # "")

\* the write of an input or output file failed, then the restore failed
C4_Witness ==
    /\ BackedUp /\ Before(last, "save", "restore")
    /\ last.restoreError = "RestoreCopyFailed"
    /\ last.err = [kind |-> "RestoreFailed", restore |-> "RestoreCopyFailed", cause |-> "SaveFailed"]

\* C5: CreateTaskDirectory without overwrite on a task whose directory
\* exists returns DirectoryAlreadyExists and changes nothing in the file
\* system: no file of the task changes and no backup is made.
C5_NoOverwriteNoMutation ==
    [][(last'.op = "create" /\ last'.existed /\ ~last'.overwrite)
        => (last'.err.kind = "DirectoryAlreadyExists" /\ fs' = fs)]_vars

\* a second creation with other bytes is refused and the files of the
\* first are in place
C5_Witness ==
    /\ last.op = "create" /\ last.existed /\ ~last.overwrite
    /\ last.err.kind = "DirectoryAlreadyExists"
    /\ last.files = ValidSet(1, "b")
    /\ CompleteTree(fs, last.taskID, ValidSet(1, "a"))
    /\ BackupDirs(fs) = {}

\* C6: for every n >= 1, CreateTaskDirectory of a task that does not exist
\* with one description, inputs 1.in..n.in and outputs 1.out..n.out
\* succeeds, and at its return the input directory holds exactly 1.in..n.in
\* and the output directory exactly 1.out..n.out, each with the bytes
\* supplied.
C6_ValidSetStoredExactly ==
    \A n \in 1..MaxN, v \in Versions :
        (last.op = "create" /\ ~last.existed /\ last.files = ValidSet(n, v)) =>
            LET t == last.taskID
                inName(i) == Itoa(i) \o <<".in">>
                outName(i) == Itoa(i) \o <<".out">>
            IN  /\ last.err = NilErr
                /\ Children(fs, InputDir(t)) = {Join(InputDir(t), inName(i)) : i \in 1..n}
                /\ Children(fs, OutputDir(t)) = {Join(OutputDir(t), outName(i)) : i \in 1..n}
                /\ \A i \in 1..n :
                    /\ fs[Join(InputDir(t), inName(i))] = FileNode(AndNot(FilePerm, umask), <<v>> \o inName(i))
                    /\ fs[Join(OutputDir(t), outName(i))] = FileNode(AndNot(FilePerm, umask), <<v>> \o outName(i))

\* the largest valid set was stored on a task that did not exist
C6_Witness ==
    /\ last.op = "create" /\ ~last.existed /\ last.err = NilErr
    /\ last.files = ValidSet(MaxN, "a")
    /\ Cardinality(Children(fs, InputDir(last.taskID))) = MaxN
    /\ Cardinality(Children(fs, OutputDir(last.taskID))) = MaxN

\* C12: every backup directory that CreateTaskDirectory creates is removed
\* before the call returns, on every exit path.
C12_BackupsRemovedOnEveryExit ==
    last.op = "create" => BackupDirs(fs) = {}

\* C13: when every write of an overwrite succeeded and the removal of the
\* backup fails, the call returns that failure, the complete new tree stays
\* in place and no restore runs.
C13_DiscardFailureKeepsNewTree ==
    (/\ last.op = "create" /\ Ran(last, "discard")
     /\ last.backupDir # NoPath /\ Exists(fs, last.backupDir))
        => /\ last.err.kind = "DiscardFailed"
           /\ CompleteTree(fs, last.taskID, last.files)
           /\ ~Ran(last, "restore")

\* the tree of the second upload is in place and the tree of the first is
\* left in the backup that could not be removed
C13_Witness ==
    /\ last.op = "create" /\ last.err.kind = "DiscardFailed"
    /\ last.files = ValidSet(1, "b")
    /\ CompleteTree(fs, last.taskID, ValidSet(1, "b"))
    /\ LET old == last.backupDir \o << <<"src">>, <<"description", ".pdf">> >>
       IN  Exists(fs, old) /\ fs[old].data = ValidSet(1, "a")[DescriptionKey]

\* ---------------------------------------------------------------------
\* Properties of StoreUserOutputs
\* ---------------------------------------------------------------------
\* C7: a StoreUserOutputs call for a submission whose output directory
\* holds an entry fails with OutputsAlreadyStored and changes nothing: what
\* the first call wrote stays as it was written.
C7_PopulatedOutputsImmutable ==
    [][(/\ last'.op = "outputs"
        /\ Children(fs, SubmissionOutputDir(last'.taskID, last'.userID, last'.number)) # {})
        => (last'.err.kind = "OutputsAlreadyStored" /\ fs' = fs)]_vars

\* a second upload of 1.out with other bytes was refused and the bytes of
\* the first upload are in place
C7_Witness ==
    /\ last.op = "outputs" /\ last.err.kind = "OutputsAlreadyStored"
    /\ last.files = OutputsOf({1}, "b")
    /\ LET out == Join(SubmissionOutputDir(last.taskID, last.userID, last.number), Itoa(1) \o <<".out">>)
       IN  Exists(fs, out) /\ fs[out].data = Bytes("a", Itoa(1) \o <<".out">>)

C9_NumbersNeverReused ==
    [][(last'.op = "submit" /\ last'.err = NilErr)
        => last'.number > assigned[last'.taskID][last'.userID]]_vars

\* C10: no lock orders the count and the creation of the directory.  A
\* call counts 1 + the submission directories present at that moment, so a
\* call that counts while another call of the same task and user stands
\* between its own count and its mkdir gets the same number; both then
\* create and write the same submission directory.
C10_CountThenCreateRace ==
    [][\A p \in Procs :
        (procs[p].op = "submit" /\ procs[p].pc = "count" /\ procs'[p].pc = "mkout") =>
            LET t == procs[p].taskID
                u == procs[p].userID
            IN  /\ procs'[p].number = 1 + Cardinality(SubmissionDirs(fs, t, u))
                /\ \A q \in Procs \ {p} :
                    (/\ procs[q].op = "submit" /\ procs[q].pc = "mkout"
                     /\ procs[q].taskID = t /\ procs[q].userID = u
                     /\ procs[q].number = 1 + Cardinality(SubmissionDirs(fs, t, u)))
                    => /\ procs'[p].number = procs[q].number
                       /\ SubmissionDir(t, u, procs'[p].number) = SubmissionDir(t, u, procs[q].number)]_vars

\* two calls of one user returned without error with the same number: one
\* submission directory holds one solution, the upload of the call that
\* wrote last
C10_Witness ==
    /\ \A p \in Procs : procs[p].op = "submit" /\ procs[p].pc = "done" /\ procs[p].err = NilErr
    /\ procs[1].taskID = procs[2].taskID /\ procs[1].userID = procs[2].userID
    /\ procs[1].number = procs[2].number
    /\ procs[1].data # procs[2].data
    /\ LET dir == SubmissionDir(procs[1].taskID, procs[1].userID, procs[1].number)
       IN  /\ SubmissionDirs(fs, procs[1].taskID, procs[1].userID) = {dir}
           /\ fs[Join(dir, <<"solution", ".c">>)].data \in {procs[1].data, procs[2].data}

\* ---------------------------------------------------------------------
\* Properties of concurrent overwrites
\* ---------------------------------------------------------------------
\* two trees with the same entries, the same bytes and, below the root, the
\* same modes
SameBelowRoot(a, b) ==
    /\ DOMAIN a = DOMAIN b
    /\ \A r \in DOMAIN a : r # <<>> => a[r] = b[r]

\* C11: nothing orders the statements of two overwrites of one task.  The
\* snapshot of a call is a copy of whatever tree is there when the call
\* reaches its backup, torn down or half rebuilt by the other call as it
\* may be, and a restore puts that snapshot in the place of whatever the
\* other call has built since.
C11_SnapshotOfWhateverIsThere ==
    [][\A p \in Procs : procs[p].op = "create" =>
        /\ (procs[p].pc = "backup" /\ procs'[p].pc = "remove") =>
                SameBelowRoot(TreeAt(fs', procs'[p].backupDir), TreeAt(fs, TaskDir(procs[p].taskID)))
        /\ (procs[p].pc = "restore" /\ procs'[p].pc = "done" /\ procs'[p].restoreError = "") =>
                TreeAt(fs', TaskDir(procs[p].taskID)) = TreeAt(fs, procs[p].backupDir)]_vars

\* both overwrites have returned; one of them restored a snapshot it took
\* of the tree the other had torn down (the snapshot has no description),
\* and the task directory holds neither the original tree nor the complete
\* tree of either call
C11_Witness ==
    /\ \A p \in Procs : procs[p].op = "create" /\ procs[p].overwrite /\ procs[p].pc = "done"
    /\ procs[1].taskID = procs[2].taskID
    /\ \E p \in Procs :
        /\ Ran(procs[p], "restore") /\ procs[p].restoreError = ""
        /\ << <<"src">>, <<"description", ".pdf">> >> \notin DOMAIN TreeAt(fs, procs[p].backupDir)
    /\ Exists(fs, TaskDir(procs[1].taskID))
    /\ ~CompleteTree(fs, procs[1].taskID, OriginalSet)
    /\ \A p \in Procs : ~CompleteTree(fs, procs[1].taskID, procs[p].files)

\* ---------------------------------------------------------------------
\* Properties of the checks of StoreUserOutputs
\* ---------------------------------------------------------------------
\* the submission exists, its output directory is empty and the output
\* directory of the task can be read
FreshSubmission(f, t, u, n) ==
    /\ IsDir(f, OutputDir(t))
    /\ Exists(f, SubmissionDir(t, u, n))
    /\ Children(f, SubmissionOutputDir(t, u, n)) = {}
IsCompileErrorCase(files) == Cardinality(DOMAIN files) = 1 /\ <<CompileErrorName>> \in DOMAIN files
\* the numbers of the {n}.out files of the task
ExpectedNumbers(f, t) ==
    {NumberOf(Base(q)) : q \in {x \in Children(f, OutputDir(t)) : MatchesNumbered(Base(x), ".out")}}
WellNamed(files) == \A k \in DOMAIN files : MatchesNumbered(Base(k), ".out")
DistinctNumbers(files) ==
    \A a, b \in DOMAIN files : (a # b) => NumberOf(Base(a)) # NumberOf(Base(b))
\* the last call was a StoreUserOutputs that got past the checks of the
\* submission and its output directory, with something else than the
\* single compile-error.err
CheckedOutputs == last.op = "outputs" /\ Ran(last, "compile") /\ ~IsCompileErrorCase(last.files)
HasUnexpectedNumber ==
    \E k \in DOMAIN last.files :
        MatchesNumbered(Base(k), ".out") /\ NumberOf(Base(k)) \notin last.expected

\* C14: StoreUserOutputs with the single entry compile-error.err, on a
\* submission whose output directory is empty, succeeds whatever the
\* number of outputs the task expects; it creates compile-error.err with
\* the bytes supplied and nothing else.
C14_CompileErrorAlone ==
    [][(/\ last'.op = "outputs"
        /\ FreshSubmission(fs, last'.taskID, last'.userID, last'.number)
        /\ IsCompileErrorCase(last'.files))
        => LET outDir == SubmissionOutputDir(last'.taskID, last'.userID, last'.number)
               file == Join(outDir, CompileErrorName)
           IN  /\ last'.err = NilErr
               /\ Children(fs', outDir) = {file}
               /\ fs'[file] = FileNode(AndNot(FilePerm, umask), last'.files[<<CompileErrorName>>])
               /\ DOMAIN fs' = DOMAIN fs \cup {file}
               /\ \A q \in DOMAIN fs : fs'[q] = fs[q]]_vars

\* compile-error.err was stored for a task that expects MaxN outputs
C14_Witness ==
    /\ last.op = "outputs" /\ last.err = NilErr /\ IsCompileErrorCase(last.files)
    /\ last.expectedCount = MaxN
    /\ Exists(fs, Join(SubmissionOutputDir(last.taskID, last.userID, last.number), CompileErrorName))

\* C15 as stated: outputs that contain a .out number the task does not
\* expect fail with UnexpectedFileNumber.
C15_UnexpectedNumberError ==
    (CheckedOutputs /\ HasUnexpectedNumber) => last.err.kind = "UnexpectedFileNumber"

\* C15 amended: outputs that contain a .out number the task does not
\* expect fail: with CountMismatch when the number of entries differs from
\* the number of expected outputs; otherwise with the error of the first
\* offending entry the loop meets, which is UnexpectedFileNumber when every
\* entry is named {n}.out and no number is given twice.
C15_UnexpectedNumberRejected ==
    (CheckedOutputs /\ HasUnexpectedNumber) =>
        /\ last.err # NilErr
        /\ Cardinality(DOMAIN last.files) # last.expectedCount => last.err.kind = "CountMismatch"
        /\ Cardinality(DOMAIN last.files) = last.expectedCount =>
            /\ last.err.kind \in {"UnexpectedFileNumber", "InvalidOutputFormat", "DuplicateFileNumber"}
            /\ (WellNamed(last.files) /\ DistinctNumbers(last.files))
                    => last.err.kind = "UnexpectedFileNumber"

\* as many entries as the task expects, one of them with a number above
\* every expected one: UnexpectedFileNumber
C15_Witness ==
    /\ CheckedOutputs /\ HasUnexpectedNumber
    /\ last.files = OutputsOf({1, MaxN + 1}, "a")
    /\ Cardinality(DOMAIN last.files) = last.expectedCount
    /\ last.err.kind = "UnexpectedFileNumber"

\* C16: when the number of entries differs from the number of {n}.out
\* files of the task, StoreUserOutputs fails with CountMismatch whatever the
\* entries are named, and writes nothing.
C16_CountMismatch ==
    (CheckedOutputs /\ Cardinality(DOMAIN last.files) # last.expectedCount)
        => (last.err.kind = "CountMismatch" /\ last.saved = {})

\* one entry, not even named {n}.out, for a task that expects two outputs
C16_Witness ==
    /\ CheckedOutputs /\ last.err.kind = "CountMismatch"
    /\ last.files = OutputsWithKeys({TxtKeyOf(1)}, "a")
    /\ last.expectedCount = 2

\* C17: StoreUserOutputs, other than the compile-error case, on a
\* submission whose output directory is empty, succeeds if and only if
\* every entry is named {n}.out, no number is given twice and the numbers
\* given are the numbers of the outputs of the task.
C17_SuccessIffNumbersMatch ==
    [][(/\ last'.op = "outputs"
        /\ FreshSubmission(fs, last'.taskID, last'.userID, last'.number)
        /\ ~IsCompileErrorCase(last'.files))
        => (last'.err = NilErr <=>
                /\ WellNamed(last'.files)
                /\ DistinctNumbers(last'.files)
                /\ {NumberOf(Base(k)) : k \in DOMAIN last'.files} = ExpectedNumbers(fs, last'.taskID))]_vars

\* the MaxN outputs of the largest task were stored
C17_Witness ==
    /\ last.op = "outputs" /\ last.err = NilErr
    /\ last.files = OutputsOf(1..MaxN, "a")
    /\ last.saved = DOMAIN last.files
    /\ Cardinality(Children(fs, SubmissionOutputDir(last.taskID, last.userID, last.number))) = MaxN

\* ---------------------------------------------------------------------
\* The shape of a task directory
\* ---------------------------------------------------------------------
\* one description and, for some N, the inputs 1.in..N.in and the outputs
\* 1.out..N.out
WellFormedTask(f, t) ==
    LET descriptions == {q \in Children(f, SrcDir(t)) : f[q].kind = "file" /\ Base(q)[1] = "description"}
        ins == Children(f, InputDir(t))
        outs == Children(f, OutputDir(t))
    IN  /\ Cardinality(descriptions) = 1
        /\ Cardinality(ins) = Cardinality(outs)
        /\ ins = {Join(InputDir(t), Itoa(n) \o <<".in">>) : n \in 1..Cardinality(ins)}
        /\ outs = {Join(OutputDir(t), Itoa(n) \o <<".out">>) : n \in 1..Cardinality(outs)}

\* C18: when no call is running and no restore has failed, every task
\* directory that exists holds one description and inputs and outputs
\* numbered 1..N, as many of the ones as of the others.  (Calls are atomic
\* here, and no call follows one that ran a restore, so a restore has failed
\* exactly when the last call's did.)
C18_TaskDirectoryWellFormed ==
    ~(last.op = "create" /\ last.restoreError # "")
        => \A t \in TaskIDs : Exists(fs, TaskDir(t)) => WellFormedTask(fs, t)

\* C19: a call of CreateTaskDirectory that overwrites an existing task
\* leaves the submissions of the task as they were.
C19_OverwriteKeepsSubmissions ==
    [][(last'.op = "create" /\ last'.overwrite /\ last'.existed)
        => TreeAt(fs', SubmissionsDir(last'.taskID)) = TreeAt(fs, SubmissionsDir(last'.taskID))]_vars

\* ---------------------------------------------------------------------
\* Properties of ValidateFiles
\* ---------------------------------------------------------------------
Descriptions(files) == {k \in DOMAIN files : IsDescriptionKey(k)}

\* C20: ValidateFiles returns nil only for a file set with exactly one
\* entry it takes for a description.
C20_ExactlyOneDescription ==
    (last.op = "validate" /\ last.err = NilErr) => Cardinality(Descriptions(last.files)) = 1

InputKeys(files) == {k \in DOMAIN files : IsInputKey(k)}
OutputKeys(files) == {k \in DOMAIN files : IsOutputKey(k)}
\* the keys K are named {n}<ext>, one key for each n of 1..N, N their number
NumberedFromOne(K, ext) ==
    /\ \A k \in K : MatchesNumbered(Base(k), ext)
    /\ \A a, b \in K : (a # b) => NumberOf(Base(a)) # NumberOf(Base(b))
    /\ {NumberOf(Base(k)) : k \in K} = 1..Cardinality(K)

\* C21: ValidateFiles returns nil only for a file set whose inputs and
\* outputs are both numbered exactly 1..N for one N: no gap, no number given
\* twice, as many inputs as outputs.
C21_SequentialNumbering ==
    (last.op = "validate" /\ last.err = NilErr) =>
        /\ NumberedFromOne(InputKeys(last.files), ".in")
        /\ NumberedFromOne(OutputKeys(last.files), ".out")
        /\ Cardinality(InputKeys(last.files)) = Cardinality(OutputKeys(last.files))

\* a set with the inputs and outputs 1..MaxN was accepted
C21_Witness ==
    /\ last.op = "validate" /\ last.err = NilErr
    /\ InputKeys(last.files) = {InKey(n) : n \in 1..MaxN}
    /\ OutputKeys(last.files) = {OutKey(n) : n \in 1..MaxN}

\* ---------------------------------------------------------------------
\* Properties of the submission directories
\* ---------------------------------------------------------------------
SolutionFiles(f, dir) == {q \in Children(f, dir) : f[q].kind = "file" /\ Base(q)[1] = "solution"}
AllSubmissionDirs(f) == UNION {SubmissionDirs(f, t, u) : t \in TaskIDs, u \in UserIDs}

\* C22: when no call is running, every submission directory holds exactly
\* one file whose name begins with "solution".
C22_OneSolutionPerSubmission ==
    \A d \in AllSubmissionDirs(fs) : Cardinality(SolutionFiles(fs, d)) = 1

\* ---------------------------------------------------------------------
\* The moment RestoreDirectory is called
\* ---------------------------------------------------------------------
\* the overwrites about to call RestoreDirectory
AtRestore == {p \in Procs : procs[p].op = "create" /\ procs[p].pc = "restore"}

\* C23 as stated: no call of CreateTaskDirectory calls RestoreDirectory
\* while the tree the task had before the call is still intact.
C23_RestoreNeverOnIntactTree ==
    \A p \in AtRestore : ~CompleteTree(fs, procs[p].taskID, OriginalSet)

\* C23 amended: RestoreDirectory is called only after the backup was taken
\* and os.RemoveAll was called on the task directory.  When that removal
\* succeeded, the tree is gone or rebuilt in part, never in full.  When the
\* removal itself failed, RestoreDirectory is called on what it left: the
\* emptied task directory, or the intact tree if nothing could be removed.
C23_RestoreAfterTeardownAttempt ==
    \A p \in AtRestore :
        LET l == procs[p]
            t == l.taskID
        IN  /\ Before(l, "backup", "remove")
            /\ l.backupDir # NoPath /\ Exists(fs, l.backupDir)
            /\ l.pending.kind = "RemoveFailed" =>
                \/ CompleteTree(fs, t, OriginalSet)
                \/ Subtree(fs, TaskDir(t)) = {TaskDir(t)}
            /\ l.pending.kind # "RemoveFailed" =>
                /\ Before(l, "remove", "mkdirs")
                /\ ~CompleteTree(fs, t, OriginalSet)
                /\ ~CompleteTree(fs, t, l.files)

\* the removal failed without removing anything, and RestoreDirectory is
\* about to be called on the intact tree
C23_Witness ==
    \E p \in AtRestore :
        /\ procs[p].pending.kind = "RemoveFailed"
        /\ procs[p].trace[Len(procs[p].trace)] = "remove"
        /\ CompleteTree(fs, procs[p].taskID, OriginalSet)

\* ---------------------------------------------------------------------
\* The extension of a solution
\* ---------------------------------------------------------------------
\* C24: CreateUserSubmission on an existing task accepts the file name if
\* and only if its extension is not empty and equals an entry of the
\* configured list, letter case ignored on both sides.
C24_ExtensionAnyCase ==
    (last.op = "submit" /\ Ran(last, "ext"))
        => (last.err = NilErr <=>
                /\ Ext(last.fileName) # ""
                /\ \E a \in last.allowed : ToLower(a) = ToLower(Ext(last.fileName)))

\* ---------------------------------------------------------------------
\* Properties of DeleteTask
\* ---------------------------------------------------------------------
\* C25: DeleteTask on a task that does not exist returns DirectoryNotFound
\* and changes nothing.  On a task that exists it returns nil or
\* DeleteFailed; when it returns nil the task directory is gone with
\* everything below it, submissions included, and nothing else has changed.
\* As long as the task does not exist, DeleteTask returns DirectoryNotFound
\* and CreateUserSubmission returns TaskNotFound.
C25_DeleteRemovesWholeTask ==
    [][LET t == last'.taskID
       IN  /\ (last'.op = "delete" /\ ~Exists(fs, TaskDir(t)))
                => (last'.err.kind = "DirectoryNotFound" /\ fs' = fs)
           /\ (last'.op = "delete" /\ Exists(fs, TaskDir(t)))
                => /\ last'.err.kind \in {"nil", "DeleteFailed"}
                   /\ last'.err = NilErr =>
                        /\ Subtree(fs', TaskDir(t)) = {}
                        /\ fs' = Restrict(fs, DOMAIN fs \ Subtree(fs, TaskDir(t)))
           /\ (last'.op = "submit" /\ ~Exists(fs, TaskDir(t)))
                => (last'.err.kind = "TaskNotFound" /\ fs' = fs)]_vars

\* a task that had been given a submission was deleted
C25_Witness ==
    /\ last.op = "delete" /\ last.err = NilErr
    /\ ~Exists(fs, TaskDir(last.taskID))
    /\ \E u \in UserIDs : assigned[last.taskID][u] > 0

\* ---------------------------------------------------------------------
\* Properties of GetUserSubmission
\* ---------------------------------------------------------------------
\* C26: GetUserSubmission on a submission directory that exists returns
\* the name and the bytes of a file exactly when the directory holds exactly
\* one file whose name begins with "solution", and they are that file's;
\* with no such file it returns NoSolutionFound, with several
\* MultipleSolutionsFound and neither a name nor bytes.
C26_SingleSolutionReturned ==
    [][last'.op = "getsub" =>
        LET dir == SubmissionDir(last'.taskID, last'.userID, last'.number)
            found == SolutionFiles(fs, dir)
        IN  /\ fs' = fs
            /\ ~Exists(fs, dir) => last'.err.kind = "SubmissionNotFound"
            /\ IsDir(fs, dir) =>
                /\ last'.err = NilErr <=> Cardinality(found) = 1
                /\ last'.err = NilErr =>
                    \E q \in found : last'.fileName = Base(q) /\ last'.data = fs[q].data
                /\ found = {} => last'.err.kind = "NoSolutionFound"
                /\ Cardinality(found) > 1 => last'.err.kind = "MultipleSolutionsFound"
                /\ last'.err # NilErr => (last'.fileName = <<>> /\ last'.data = <<>>)]_vars

\* solution1.c and solution2.c are both there and the call returned
\* MultipleSolutionsFound
C26_Witness ==
    /\ last.op = "getsub" /\ last.err.kind = "MultipleSolutionsFound"
    /\ {Join(SubmissionDir(1, 1, 1), Solution1), Join(SubmissionDir(1, 1, 1), Solution2)}
            \subseteq SolutionFiles(fs, SubmissionDir(last.taskID, last.userID, last.number))

\* ---------------------------------------------------------------------
\* Properties of the archives
\* ---------------------------------------------------------------------
ArchiveOps == {"taskfiles", "inout"}

\* C27: an archive operation that returns an error leaves no archive file
\* of its own behind: the temporary directory holds no file that was not
\* there before the call.
C27_NoArchiveLeftOnError ==
    [][(last'.op \in ArchiveOps /\ last'.err # NilErr)
        => Children(fs', TempRoot) \subseteq Children(fs, TempRoot)]_vars

\* C28: GetInputOutput returns an archive only if input/{k}.in and
\* output/{k}.out both exist.  If one of them is absent the call fails and
\* changes nothing, no archive file is created, and the error is
\* FileNotFound when the input and output directories are there.
C28_PairArchiveNeedsBothFiles ==
    [][last'.op = "inout" =>
        LET t == last'.taskID
            inputFilePath == Join(InputDir(t), Itoa(last'.number) \o <<".in">>)
            outputFilePath == Join(OutputDir(t), Itoa(last'.number) \o <<".out">>)
            both == Exists(fs, inputFilePath) /\ Exists(fs, outputFilePath)
        IN  /\ last'.err = NilErr => both
            /\ ~both =>
                /\ last'.err # NilErr /\ last'.tarFilePath = NoPath
                /\ fs' = fs
                /\ (Exists(fs, InputDir(t)) /\ Exists(fs, OutputDir(t)))
                    => last'.err.kind \in {"InputFileDoesNotExist", "OutputFileDoesNotExist"}]_vars

\* the input is there, the output is not, and the call returned the error
\* of the missing output file without creating the archive
C28_Witness ==
    /\ last.op = "inout" /\ last.err.kind = "OutputFileDoesNotExist"
    /\ Exists(fs, Join(InputDir(last.taskID), Itoa(last.number) \o <<".in">>))
    /\ ~Exists(fs, Join(OutputDir(last.taskID), Itoa(last.number) \o <<".out">>))
    /\ ~Exists(fs, TarFilePath(last))

\* C29: a CreateTaskDirectory that fails on a task whose directory did not
\* exist before the call leaves no task directory behind, so that a later
\* call with overwrite=false is not refused with DirectoryAlreadyExists.
C29_FailedCreateLeavesNoDirectory ==
    (last.op = "create" /\ ~last.existed /\ last.err # NilErr)
        => ~Exists(fs, TaskDir(last.taskID))

\* C30: a StoreUserOutputs that returns a validation error (a name that is
\* not {n}.out, a duplicate number, an unexpected number or a count
\* mismatch) has written no file: the output directory of the submission
\* is still empty, so that a corrected call is not refused with
\* OutputsAlreadyStored.
C30_ValidationErrorWritesNothing ==
    (/\ last.op = "outputs"
     /\ last.err.kind \in {"InvalidOutputFormat", "DuplicateFileNumber",
                           "UnexpectedFileNumber", "CountMismatch"})
        => Children(fs, SubmissionOutputDir(last.taskID, last.userID, last.number)) = {}

\* C31: validator and writer agree on the description: after a
\* CreateTaskDirectory that succeeded, description.pdf of the task holds
\* the bytes of a description entry of the uploaded file set.
C31_DescriptionBytesWritten ==
    (last.op = "create" /\ last.err = NilErr)
        => /\ Exists(fs, DescriptionFile(last.taskID))
           /\ \E k \in Descriptions(last.files) :
                    fs[DescriptionFile(last.taskID)].data = last.files[k]

\* C32: of two concurrent StoreUserOutputs calls for the same submission at
\* most one succeeds, and when both have returned the output directory
\* holds exactly the entries of one of the two calls, never a mixture.
StoredExactly(f, l) ==
    LET outDir == SubmissionOutputDir(l.taskID, l.userID, l.number)
    IN  /\ Children(f, outDir) = {Join(outDir, Base(k)) : k \in DOMAIN l.files}
        /\ \A k \in DOMAIN l.files : f[Join(outDir, Base(k))].data = l.files[k]
C32_OneStoreWins ==
    (\A p \in Procs : procs[p].op = "outputs" /\ procs[p].pc = "done")
        => /\ \E p \in Procs : procs[p].err # NilErr
           /\ \E p \in Procs : StoredExactly(fs, procs[p])

\* C33: of two concurrent CreateTaskDirectory calls without overwrite for
\* the same task that does not exist, at most one succeeds and the other
\* returns DirectoryAlreadyExists, and the task directory holds exactly the
\* files of the call that succeeded.
C33_OneCreateWins ==
    (\A p \in Procs : procs[p].op = "create" /\ procs[p].pc = "done")
        => \E p, q \in Procs :
            /\ p # q
            /\ procs[q].err.kind = "DirectoryAlreadyExists"
            /\ procs[p].err = NilErr => CompleteTree(fs, procs[p].taskID, procs[p].files)

\* C34: a CreateUserSubmission that fails with TaskNotFound,
\* MissingExtension or ExtensionNotAllowed leaves the file system as it
\* was: no submissions, user or submission directory is created.
C34_RejectedSubmissionChangesNothing ==
    [][(/\ last'.op = "submit"
        /\ last'.err.kind \in {"TaskNotFound", "MissingExtension", "ExtensionNotAllowed"})
        => fs' = fs]_vars

\* the archive a request running alone would have been sent
CompleteArchive(l) ==
    {r.fs[TarFilePath(l)].data : r \in Call(ArchiveInit(l.op, l.taskID, l.number, FALSE), fs, umask)}

\* C35: concurrent archive requests with the same parameters do not
\* interfere: every request whose service call returned a path is sent the
\* complete archive; the build and the clean-up of another request neither
\* truncate nor delete the file it reads.
C35_EveryCallerReadsCompleteArchive ==
    \A p \in Procs :
        (procs[p].op \in ArchiveOps /\ procs[p].pc \in {"remove", "closed"})
            => /\ procs[p].err = NilErr
               /\ procs[p].response \in CompleteArchive(procs[p])

\* C36: DeleteTask is all or nothing: when it returns DeleteFailed the task
\* directory and everything below it are as they were before the call.
C36_FailedDeleteChangesNothing ==
    [][(last'.op = "delete" /\ last'.err.kind = "DeleteFailed") => fs' = fs]_vars

\* ---------------------------------------------------------------------
\* Classification of the service errors.  The calls return one of the
\* values below; WriteServiceError answers with its StatusCode().
\* ---------------------------------------------------------------------
StatusBadRequest == 400
StatusInternalServerError == 500

BadRequestErrors ==
    {"ErrDirectoryAlreadyExists", "ErrInvalidTaskID", "ErrFileHasNoExtension",
     "ErrFileExtensionNotAllowed", "ErrOutputDirContainsFiles", "ErrNoProgramFileFound",
     "ErrMultipleProgramFilesFound", "ErrInputFileDoesNotExist", "ErrOutputFileDoesNotExist",
     "ErrOutputFileMismatch", "ErrUnexpectedOutputFileNumber", "ErrDuplicateOutputFileNumber",
     "ErrInvalidOutputFileFormat", "ErrSubmissionDirDoesNotExist", "ErrTaskSrcDirDoesNotExist",
     "ErrInputDirectoryDoesNotExist", "ErrOutputDirectoryDoesNotExist"}

\* (e *BadRequestError).StatusCode() and (e *InternalServerError).StatusCode()
StatusCode(e) == IF e \in BadRequestErrors THEN StatusBadRequest ELSE StatusInternalServerError

ValidationKinds ==
    {"InvalidFileName", "DuplicateFileNumber", "InvalidDescriptionExtension", "UnrecognizedPath",
     "CountMismatch", "MissingDescription", "NonSequentialNumbering"}

\* the value a call returns for each of its error returns
ServiceError(l) ==
    LET k == l.err.kind
    IN  IF l.op = "create" /\ k \in ValidationKinds THEN "ErrFailedValidateFiles"
        ELSE IF k = "DirectoryAlreadyExists" THEN "ErrDirectoryAlreadyExists"
        ELSE IF k \in {"TaskNotFound", "DirectoryNotFound"} THEN "ErrInvalidTaskID"
        ELSE IF k = "MissingExtension" THEN "ErrFileHasNoExtension"
        ELSE IF k = "ExtensionNotAllowed" THEN "ErrFileExtensionNotAllowed"
        ELSE IF k = "SubmissionNotFound" THEN "ErrSubmissionDirDoesNotExist"
        ELSE IF k = "OutputsAlreadyStored" THEN "ErrOutputDirContainsFiles"
        ELSE IF k = "CountMismatch" THEN "ErrOutputFileMismatch"
        ELSE IF k = "InvalidOutputFormat" THEN "ErrInvalidOutputFileFormat"
        ELSE IF k = "DuplicateFileNumber" THEN "ErrDuplicateOutputFileNumber"
        ELSE IF k = "UnexpectedFileNumber" THEN "ErrUnexpectedOutputFileNumber"
        ELSE IF k = "NoSolutionFound" THEN "ErrNoProgramFileFound"
        ELSE IF k = "MultipleSolutionsFound" THEN "ErrMultipleProgramFilesFound"
        ELSE IF k = "TaskSrcDirDoesNotExist" THEN "ErrTaskSrcDirDoesNotExist"
        ELSE IF k = "InputDirDoesNotExist" THEN "ErrInputDirectoryDoesNotExist"
        ELSE IF k = "OutputDirDoesNotExist" THEN "ErrOutputDirectoryDoesNotExist"
        ELSE IF k = "InputFileDoesNotExist" THEN "ErrInputFileDoesNotExist"
        ELSE IF k = "OutputFileDoesNotExist" THEN "ErrOutputFileDoesNotExist"
        ELSE IF k = "RestoreFailed" THEN "ErrFailedRestoreDirectory"
        ELSE IF k = "DeleteFailed" THEN "ErrFailedDeleteTaskDirectory"
        ELSE "InternalServerError"

\* the rejections that the caller's input or the current state causes
ClientRejection(l) ==
    l.err.kind \in ValidationKinds \cup
        {"DirectoryAlreadyExists", "TaskNotFound", "DirectoryNotFound", "SubmissionNotFound",
         "MissingExtension", "ExtensionNotAllowed", "InvalidOutputFormat", "UnexpectedFileNumber",
         "OutputsAlreadyStored", "NoSolutionFound", "MultipleSolutionsFound"}

\* C37: every rejection caused by the caller's input or by a conflict with
\* the current state, a file set that fails validation included, is
\* answered as a client error (400) and never as a server error (500).
C37_ClientRejectionsAreBadRequests ==
    ClientRejection(last) => StatusCode(ServiceError(last)) = StatusBadRequest

\* ---------------------------------------------------------------------
\* Properties of the file service
\* ---------------------------------------------------------------------
RECURSIVE SumOfSizes(_)
SumOfSizes(Objects) ==
    IF DOMAIN Objects = {} THEN 0
    ELSE LET k == CHOOSE x \in DOMAIN Objects : TRUE
         IN  Objects[k] + SumOfSizes(Restrict(Objects, DOMAIN Objects \ {k}))

\* C39: after any sequence of AddOrUpdateObject and RemoveObject calls,
\* failed ones included, every bucket's NumberOfObjects is the number of
\* entries of its Objects and its Size is the sum of their sizes.
C39_BucketTotalsMatchObjects ==
    \A b \in DOMAIN buckets :
        /\ buckets[b].NumberOfObjects = Cardinality(DOMAIN buckets[b].Objects)
        /\ buckets[b].Size = SumOfSizes(buckets[b].Objects)

\* an upload has replaced an object of a bucket that holds another object
C39_Witness ==
    /\ last.op = "AddOrUpdateObject" /\ last.err = NilErr /\ last.existed
    /\ buckets[last.bucketName].NumberOfObjects >= 2
    /\ buckets[last.bucketName].Size > buckets[last.bucketName].Objects[last.objectKey]

\* the files below a bucket's directory, as object keys
FilesOfBucket(f, b) ==
    {SubSeq(q, 3, Len(q)) : q \in {x \in Subtree(f, ObjectPath(b, <<>>)) : f[x].kind = "file"}}

\* C40: the bucket metadata matches the disk: every recorded object is a
\* file of the recorded size, and every file below a bucket's directory
\* is recorded, also after an AddOrUpdateObject that failed part-way.
C40_MetadataMatchesDisk ==
    \A b \in DOMAIN buckets :
        /\ FilesOfBucket(fs, b) = DOMAIN buckets[b].Objects
        /\ \A k \in DOMAIN buckets[b].Objects :
                Len(fs[ObjectPath(b, k)].data) = buckets[b].Objects[k]

\* C38: a bucket delete request succeeds only if the bucket holds no
\* object at the moment its directory is removed, also when an upload to
\* the bucket runs beside the request.
C38_DeleteRemovesNoObjects ==
    [][\A p \in Procs :
          (/\ procs[p].op = "deleteBucket" /\ procs[p].pc = "remove"
           /\ procs'[p].pc = "done" /\ procs'[p].err = NilErr)
          => FilesOfBucket(fs, procs[p].bucketName) = {}]_vars

====
